---- MODULE Spec2Model ----
(***************************************************************************)
(* WindowLasso: the window and monitor state engine.                       *)
(*                                                                         *)
(* The model follows src/src/types.rs (rectangle geometry) and             *)
(* src/src/windows_api/windows.rs (classification of enumerated windows,   *)
(* move_window_to_monitor_with_options, move_to_next_monitor).  One        *)
(* top-level window of the desktop is tracked; the Win32 calls the engine  *)
(* issues act on its record, and every call can fail.  Win32 itself is     *)
(* modelled by the os_ operators, after its documentation:                 *)
(* SetWindowPlacement stores rcNormalPosition and applies showCmd at once  *)
(* (showCmd is the show state of the window, not a deferred command);      *)
(* ShowWindow(SW_MAXIMIZE) maximizes on the monitor that holds the window. *)
(*                                                                         *)
(* src/src/hotkeys.rs (the registration of the global hotkeys) and         *)
(* src/src/app.rs (the message handlers of the application and the tasks   *)
(* they start) are modelled on top of the engine.                          *)
(*                                                                         *)
(* Specifications:                                                         *)
(*   SpecGeom  the classification functions applied to every rectangle of  *)
(*             a small grid and to arbitrary monitor lists;                *)
(*   Spec      the repositioning operations on a desktop whose monitors    *)
(*             are laid out as Windows lays them out (disjoint bounds,     *)
(*             work area inside the bounds);                               *)
(*   SpecEnum  enumerate_windows and enumerate_monitors over a desktop of  *)
(*             titled windows, one OS callback at a time, two calls        *)
(*             running concurrently;                                       *)
(*   SpecKeys  the hotkey bindings edited in the settings and the hotkey   *)
(*             events the OS delivers for the registered combinations;     *)
(*   SpecApp   the application: its handlers, the repositioning calls and  *)
(*             the loads they start as tasks, and the messages the tasks   *)
(*             send back, in every interleaving;                           *)
(*   SpecAppLive  the application on a fixed display configuration, with   *)
(*             every task run and every message delivered.                 *)
(***************************************************************************)
EXTENDS Integers, Sequences, FiniteSets, TLC

VARIABLES monitors, win, snap, last, desktop, displays, scans, keys, app, tasks

vars == <<monitors, win, snap, last, desktop, displays, scans, keys, app, tasks>>

(***************************************************************************)
(* Bounds of the model.                                                    *)
(***************************************************************************)
\* SpecGeom: rectangle coordinates range over 0..GridMax on both axes.
GridMax == 4
\* Spec: the window's initial width and height range over 1..MaxWinSize.
MaxWinSize == 4
\* SpecEnum: the desktop holds at most MaxWindows top-level windows.
MaxWindows == 3
\* SpecEnum: the OS reports at most MaxDisplays monitors.
MaxDisplays == 3
\* SpecKeys: at most MaxChanges UpdateHotkey and ToggleHotkey messages.
MaxChanges == 2
\* SpecApp: the application starts at most MaxMoves repositioning calls and,
\* besides the reload after each of them and the load at startup, at most
\* MaxRefreshes refreshes; the system reorders its monitors at most
\* MaxDisplayChanges times.
MaxMoves == 2
MaxRefreshes == 1
MaxDisplayChanges == 1
\* SpecApp: a hotkey, a click or a tick starts a task only while fewer than
\* MaxInFlight tasks are running.
MaxInFlight == 2

\* the hotkey state, the application state and the running tasks in the
\* specifications that do not involve them
NoKeys == [changes |-> 0]
NoApp == [exited |-> FALSE]
NoTasks == <<>>

(***************************************************************************)
(* Rust integer arithmetic.                                                *)
(***************************************************************************)
\* i32 `/` truncates toward zero (TLA+ \div rounds toward minus infinity).
TruncDiv(a, b) == IF a >= 0 THEN a \div b ELSE -((-a) \div b)

Min(a, b) == IF a <= b THEN a ELSE b
Max(a, b) == IF a >= b THEN a ELSE b

(***************************************************************************)
(* types.rs: WindowRect                                                    *)
(***************************************************************************)
Rect(l, t, r, b) == [left |-> l, top |-> t, right |-> r, bottom |-> b]

width(r) == r.right - r.left

height(r) == r.bottom - r.top

center(r) == <<r.left + TruncDiv(width(r), 2), r.top + TruncDiv(height(r), 2)>>

intersects_touching(a, b) ==
    /\ a.left <= b.right
    /\ a.right >= b.left
    /\ a.top <= b.bottom
    /\ a.bottom >= b.top

intersects(a, b) ==
    /\ a.left < b.right
    /\ a.right > b.left
    /\ a.top < b.bottom
    /\ a.bottom > b.top

(***************************************************************************)
(* types.rs: MonitorInfo.  The name is the one get_monitor_info builds     *)
(* from the position in the OS enumeration.                                *)
(***************************************************************************)
monitor_name(index, is_primary) ==
    LET digits == <<"1", "2", "3", "4", "5", "6", "7", "8", "9">>
    IN  IF is_primary
        THEN "Display " \o digits[index + 1] \o " (Primary)"
        ELSE "Display " \o digits[index + 1]

Monitor(index, bounds, work_area, is_primary) ==
    [name |-> monitor_name(index, is_primary),
     bounds |-> bounds,
     work_area |-> work_area,
     is_primary |-> is_primary,
     display_index |-> index]

\* a center taken from the full bounds of the monitor
monitor_center_bounds(m) == center(m.bounds)

\* MonitorInfo::center: the center of the work area.
monitor_center(m) == center(m.work_area)

\* Option<String>::None
None == "None"

(***************************************************************************)
(* windows.rs: classification against a monitor list                       *)
(***************************************************************************)
\* monitors.iter().any(|monitor| rect.intersects(&monitor.bounds))
RECURSIVE any_intersects(_, _, _)
any_intersects(rect, ms, i) ==
    IF i > Len(ms) THEN FALSE
    ELSE IF intersects(rect, ms[i].bounds) THEN TRUE
    ELSE any_intersects(rect, ms, i + 1)

is_window_on_any_monitor(rect, ms) == any_intersects(rect, ms, 1)

\* the key of max_by_key: the area of the overlap with the monitor's bounds
overlap_area(rect, b) ==
    LET overlap_left == Max(rect.left, b.left)
        overlap_right == Min(rect.right, b.right)
        overlap_top == Max(rect.top, b.top)
        overlap_bottom == Min(rect.bottom, b.bottom)
    IN  (overlap_right - overlap_left) * (overlap_bottom - overlap_top)

\* the half-open containment test of the first loop of find_window_monitor
center_in_bounds(rect, b) ==
    LET c == center(rect)
    IN  /\ c[1] >= b.left
        /\ c[1] < b.right
        /\ c[2] >= b.top
        /\ c[2] < b.bottom

\* a max_by_key that keeps the first of several equal maxima
RECURSIVE max_by_key_first(_, _, _, _)
max_by_key_first(rect, ms, i, best) ==
    IF i > Len(ms) THEN best
    ELSE max_by_key_first(rect, ms, i + 1,
            IF overlap_area(rect, ms[i].bounds) > overlap_area(rect, ms[best].bounds)
            THEN i ELSE best)

\* Iterator::max_by_key folds from the first element and replaces the
\* running maximum unless it compares Greater: of equal maxima the last wins.
RECURSIVE max_by_key(_, _, _, _)
max_by_key(rect, ms, i, best) ==
    IF i > Len(ms) THEN best
    ELSE max_by_key(rect, ms, i + 1,
            IF overlap_area(rect, ms[best].bounds) > overlap_area(rect, ms[i].bounds)
            THEN best ELSE i)

\* the first loop: the first monitor whose bounds contain the center (0: none)
RECURSIVE first_center_monitor(_, _, _)
first_center_monitor(rect, ms, i) ==
    IF i > Len(ms) THEN 0
    ELSE IF center_in_bounds(rect, ms[i].bounds) THEN i
    ELSE first_center_monitor(rect, ms, i + 1)

\* a center loop that keeps searching and returns the last match
RECURSIVE last_center_monitor(_, _, _)
last_center_monitor(rect, ms, i) ==
    IF i < 1 THEN 0
    ELSE IF center_in_bounds(rect, ms[i].bounds) THEN i
    ELSE last_center_monitor(rect, ms, i - 1)

find_window_monitor_last(rect, ms) ==
    LET byCenter == last_center_monitor(rect, ms, Len(ms))
        cand == SelectSeq(ms, LAMBDA m : intersects(rect, m.bounds))
    IN  IF byCenter # 0 THEN ms[byCenter].name
        ELSE IF Len(cand) = 0 THEN None
        ELSE cand[max_by_key(rect, cand, 2, 1)].name

find_window_monitor(rect, ms) ==
    LET byCenter == first_center_monitor(rect, ms, 1)
        cand == SelectSeq(ms, LAMBDA m : intersects(rect, m.bounds))
    IN  IF byCenter # 0 THEN ms[byCenter].name
        ELSE IF Len(cand) = 0 THEN None
        ELSE cand[max_by_key(rect, cand, 2, 1)].name

(***************************************************************************)
(* The tracked window as Win32 holds it.                                   *)
(*   valid   the handle names a live window                                *)
(*   state   Normal, Minimized or Maximized                                *)
(*   rect    what GetWindowRect reports                                    *)
(*   normal  WINDOWPLACEMENT.rcNormalPosition, the restore rectangle       *)
(***************************************************************************)
Window(valid, state, rect, normal) ==
    [valid |-> valid, state |-> state, rect |-> rect, normal |-> normal]

\* where Win32 parks the live rectangle of a minimized window
IconRect == Rect(-32000, -32000, -31840, -31972)

IsIconic(w) == w.valid /\ w.state = "Minimized"

IsZoomed(w) == w.valid /\ w.state = "Maximized"

(***************************************************************************)
(* windows.rs: enum_windows_callback and enumerate_windows, for the        *)
(* tracked window.  The style, title and process filters are taken as      *)
(* passed.  NoWindow: the window is not in the returned list.              *)
(***************************************************************************)
NoWindow == [listed |-> FALSE]

\* a callback that takes the live rectangle of every window
enum_windows_callback_live(w, rectFails) ==
    LET is_minimized == IsIconic(w)
        rect == w.rect
    IN  IF ~w.valid THEN NoWindow
        ELSE IF rectFails THEN NoWindow
        ELSE IF ~is_minimized /\ (rect.right - rect.left <= 0 \/ rect.bottom - rect.top <= 0)
             THEN NoWindow
        ELSE [listed |-> TRUE,
              rect |-> rect,
              is_visible |-> ~is_minimized,
              is_offscreen |-> FALSE,
              is_minimized |-> is_minimized,
              monitor_name |-> None]

enum_windows_callback(w, rectFails) ==
    LET is_minimized == IsIconic(w)
        rect == IF is_minimized THEN w.normal ELSE w.rect
    IN  IF ~w.valid THEN NoWindow
        ELSE IF rectFails THEN NoWindow
        ELSE IF ~is_minimized /\ (rect.right - rect.left <= 0 \/ rect.bottom - rect.top <= 0)
             THEN NoWindow
        ELSE [listed |-> TRUE,
              rect |-> rect,
              is_visible |-> ~is_minimized,
              is_offscreen |-> FALSE,
              is_minimized |-> is_minimized,
              monitor_name |-> None]

enumerate_windows(w, ms, rectFails) ==
    LET info == enum_windows_callback(w, rectFails)
    IN  IF ~info.listed THEN NoWindow
        ELSE [info EXCEPT !.is_offscreen = ~is_window_on_any_monitor(info.rect, ms),
                          !.monitor_name = find_window_monitor(info.rect, ms)]

NoCall == [op |-> "none"]

\* a refresh: the snapshot of the tracked window is replaced
Enumerate ==
    /\ \E rectFails \in BOOLEAN :
          snap' = enumerate_windows(win, monitors, rectFails)
    /\ snap' # snap
    /\ UNCHANGED <<monitors, win, last, desktop, displays, scans, keys, app, tasks>>

(***************************************************************************)
(* Rust strings: str::to_lowercase, str::contains and Ord for str, on      *)
(* titles of ASCII letters, digits and spaces.                             *)
(***************************************************************************)
Upper == "ABCDEFGHIJKLMNOPQRSTUVWXYZ"
Lower == "abcdefghijklmnopqrstuvwxyz"
Digits == "0123456789"

char_at(s, i) == SubSeq(s, i, i)

\* the code points of the characters: strings compare by their bytes
CodePoints ==
    [c \in {char_at(Digits, i) : i \in 1..10} |->
        47 + CHOOSE i \in 1..10 : char_at(Digits, i) = c]
    @@ [c \in {char_at(Upper, i) : i \in 1..26} |->
        64 + CHOOSE i \in 1..26 : char_at(Upper, i) = c]
    @@ [c \in {char_at(Lower, i) : i \in 1..26} |->
        96 + CHOOSE i \in 1..26 : char_at(Lower, i) = c]
    @@ [c \in {" "} |-> 32]

code_point(c) == CodePoints[c]

\* char::to_lowercase: an upper-case letter has the code point of its
\* lower-case letter minus 32
LowerCase ==
    [c \in {char_at(Upper, i) : i \in 1..26} |->
        char_at(Lower, CHOOSE i \in 1..26 : char_at(Upper, i) = c)]

to_lowercase_char(c) == IF c \in DOMAIN LowerCase THEN LowerCase[c] ELSE c

\* str::to_lowercase
RECURSIVE to_lowercase(_)
to_lowercase(s) ==
    IF Len(s) = 0 THEN ""
    ELSE to_lowercase_char(char_at(s, 1)) \o to_lowercase(SubSeq(s, 2, Len(s)))

\* str::contains
contains(s, pat) ==
    \E i \in 1..(Len(s) - Len(pat) + 1) : SubSeq(s, i, i + Len(pat) - 1) = pat

\* Ord::cmp for str: lexicographic by code point, a proper prefix is Less
RECURSIVE str_cmp(_, _, _)
str_cmp(a, b, i) ==
    IF i > Len(a) /\ i > Len(b) THEN "Equal"
    ELSE IF i > Len(a) THEN "Less"
    ELSE IF i > Len(b) THEN "Greater"
    ELSE IF code_point(char_at(a, i)) < code_point(char_at(b, i)) THEN "Less"
    ELSE IF code_point(char_at(a, i)) > code_point(char_at(b, i)) THEN "Greater"
    ELSE str_cmp(a, b, i + 1)

(***************************************************************************)
(* windows.rs: the title filter, and enumerate_windows over the whole      *)
(* desktop.  An entry of the desktop is a top-level window that passes     *)
(* the visibility, style and process filters of the callback:              *)
(* [hwnd, title, win, rectFails], win as above.                            *)
(***************************************************************************)
SKIP_TITLES ==
    {"Program Manager",
     "Windows Input Experience",
     "Microsoft Text Input Application",
     "Settings",
     "NVIDIA GeForce Overlay",
     "Default IME",
     "MSCTFIME UI",
     "DWM Notification Window"}

\* a title filter that only knows the exact titles
should_skip_window_exact(title) == title \in SKIP_TITLES

\* lines 350-371
should_skip_window(title) ==
    \/ title \in SKIP_TITLES
    \/ contains(to_lowercase(title), "dwm notification")
    \/ contains(to_lowercase(title), "desktop window manager")

\* lines 85-126 and 139-158: the record the callback builds for one window,
\* NoWindow when it returns early
window_info(d) ==
    IF Len(d.title) = 0 \/ should_skip_window(d.title) THEN NoWindow
    ELSE IF ~enum_windows_callback(d.win, d.rectFails).listed THEN NoWindow
    ELSE [hwnd |-> d.hwnd, title |-> d.title]
            @@ enum_windows_callback(d.win, d.rectFails)

\* a callback that pushes onto one Vec shared by the calls of its kind
push_shared(sc, c, item) ==
    [k \in DOMAIN sc |->
        IF sc[k].kind = sc[c].kind /\ ~sc[k].done
        THEN [sc[k] EXCEPT !.acc = Append(@, item)]
        ELSE sc[k]]

\* lines 160-162: the record is pushed onto the Vec the callback got through
\* lparam, the one of its own call (sc: the calls in flight, c: this call)
push(sc, c, item) == [sc EXCEPT ![c].acc = Append(@, item)]

\* lines 37-41: the off-screen flag and the monitor of every collected record
update_offscreen(list, ms) ==
    [i \in 1..Len(list) |->
        [list[i] EXCEPT !.is_offscreen = ~is_window_on_any_monitor(list[i].rect, ms),
                        !.monitor_name = find_window_monitor(list[i].rect, ms)]]

\* a comparison that orders the titles as they are written
sort_cmp_case_sensitive(a, b) ==
    IF a.is_offscreen /\ ~b.is_offscreen THEN "Less"
    ELSE IF ~a.is_offscreen /\ b.is_offscreen THEN "Greater"
    ELSE str_cmp(a.title, b.title, 1)

\* lines 44-48: the comparison handed to sort_by
sort_cmp(a, b) ==
    IF a.is_offscreen /\ ~b.is_offscreen THEN "Less"
    ELSE IF ~a.is_offscreen /\ b.is_offscreen THEN "Greater"
    ELSE str_cmp(to_lowercase(a.title), to_lowercase(b.title), 1)

\* slice::sort_by is a stable sort: an element goes after every element that
\* does not compare Greater than it
RECURSIVE insert_sorted(_, _, _)
insert_sorted(sorted, x, i) ==
    IF i > Len(sorted) THEN Append(sorted, x)
    ELSE IF sort_cmp(sorted[i], x) = "Greater"
         THEN SubSeq(sorted, 1, i - 1) \o <<x>> \o SubSeq(sorted, i, Len(sorted))
    ELSE insert_sorted(sorted, x, i + 1)

RECURSIVE sort_by(_, _, _)
sort_by(list, i, sorted) ==
    IF i > Len(list) THEN sorted
    ELSE sort_by(list, i + 1, insert_sorted(sorted, list[i], 1))

(***************************************************************************)
(* monitors.rs: enumerate_monitors.  A display is a monitor as the OS      *)
(* reports it: [handle, bounds, work_area, is_primary, queryFails].        *)
(***************************************************************************)
\* lines 41-44: the pair the callback pushes, index = guard.len()
monitor_entry(acc, hmonitor) == <<hmonitor, Len(acc)>>

\* Option<MonitorInfo>::None
NoMonitor == [absent |-> TRUE]

\* lines 50-102: None when GetMonitorInfoW fails
get_monitor_info(d, index) ==
    IF d.queryFails THEN NoMonitor
    ELSE Monitor(index, d.bounds, d.work_area, d.is_primary)

\* a collection that numbers the monitors it keeps, not the ones it met
RECURSIVE filter_map_monitors_renumbered(_, _, _)
filter_map_monitors_renumbered(handles, ds, i) ==
    IF i > Len(handles) THEN <<>>
    ELSE LET kept == Cardinality({j \in 1..(i - 1) : ~ds[handles[j][1]].queryFails})
             info == get_monitor_info(ds[handles[i][1]], kept)
         IN  IF info = NoMonitor THEN filter_map_monitors_renumbered(handles, ds, i + 1)
             ELSE <<info>> \o filter_map_monitors_renumbered(handles, ds, i + 1)

\* lines 27-30: filter_map(get_monitor_info) over the collected pairs; a
\* handle is the position of the display in the OS list
RECURSIVE filter_map_monitors(_, _, _)
filter_map_monitors(handles, ds, i) ==
    IF i > Len(handles) THEN <<>>
    ELSE LET info == get_monitor_info(ds[handles[i][1]], handles[i][2])
         IN  IF info = NoMonitor THEN filter_map_monitors(handles, ds, i + 1)
             ELSE <<info>> \o filter_map_monitors(handles, ds, i + 1)

(***************************************************************************)
(* The enumeration calls in flight.  A call is                             *)
(*   kind    idle, windows or monitors                                     *)
(*   pos     how many items the OS has handed to its callback              *)
(*   acc     the Vec behind the Mutex its callback pushes to               *)
(*   done    the call has returned                                         *)
(*   result  the list it returned                                          *)
(***************************************************************************)
Callers == {1, 2}

Scan(kind, pos, acc, done, result) ==
    [kind |-> kind, pos |-> pos, acc |-> acc, done |-> done, result |-> result]

Idle == Scan("idle", 0, <<>>, FALSE, <<>>)

NoScans == [c \in Callers |-> Idle]

(***************************************************************************)
(* SpecGeom: every rectangle of the grid against arbitrary monitor lists.  *)
(***************************************************************************)
GridRects ==
    {Rect(l, t, r, b) : l \in 0..GridMax, t \in 0..GridMax,
                        r \in 0..GridMax, b \in 0..GridMax}

GeomLists ==
    LET A == Rect(0, 0, 2, 2)
        B == Rect(2, 2, 4, 4)
        C == Rect(2, 0, 4, 2)
        D == Rect(1, 1, 3, 3)
        E == Rect(0, 0, 4, 4)
    IN  { <<>>,
          <<Monitor(0, E, E, TRUE)>>,
          <<Monitor(0, A, A, TRUE), Monitor(1, B, B, FALSE)>>,
          <<Monitor(0, A, A, FALSE), Monitor(1, C, C, TRUE)>>,
          <<Monitor(0, A, A, TRUE), Monitor(1, D, D, FALSE)>>,
          <<Monitor(0, D, D, FALSE), Monitor(1, E, E, TRUE)>>,
          <<Monitor(0, A, A, TRUE), Monitor(1, C, C, FALSE), Monitor(2, B, B, FALSE)>> }

InitGeom ==
    /\ monitors \in GeomLists
    /\ \E r \in GridRects, st \in {"Normal", "Minimized"} :
          win = Window(TRUE, st, IF st = "Minimized" THEN IconRect ELSE r, r)
    /\ snap = NoWindow
    /\ last = NoCall
    /\ desktop = <<>>
    /\ displays = <<>>
    /\ scans = NoScans
    /\ keys = NoKeys
    /\ app = NoApp
    /\ tasks = NoTasks

NextGeom == Enumerate

SpecGeom == InitGeom /\ [][NextGeom]_vars

(***************************************************************************)
(* Win32 as the engine drives it.  Each operator gives the window record   *)
(* after a call that succeeded; a call that fails leaves the record as it  *)
(* was.                                                                    *)
(***************************************************************************)
SW_RESTORE == "SW_RESTORE"
SW_MAXIMIZE == "SW_MAXIMIZE"

NoRect == [absent |-> TRUE]

\* The monitors Win32 may maximize a rectangle on (MonitorFromRect, nearest):
\* an empty rectangle counts as the 1x1 rectangle at its top-left corner; the
\* monitor with the largest intersection is taken; when no monitor
\* intersects, the nearest one is, which is left open here.
os_monitor_candidates(rect, ms) ==
    LET r == IF rect.right <= rect.left \/ rect.bottom <= rect.top
             THEN Rect(rect.left, rect.top, rect.left + 1, rect.top + 1)
             ELSE rect
        hit == {i \in 1..Len(ms) : intersects(r, ms[i].bounds)}
    IN  IF hit = {} THEN 1..Len(ms)
        ELSE {i \in hit : \A j \in hit :
                overlap_area(r, ms[j].bounds) <= overlap_area(r, ms[i].bounds)}

\* SetWindowPlacement: stores the restore rectangle and applies showCmd
os_SetWindowPlacement(w, rcNormalPosition, showCmd, ms, pick) ==
    IF showCmd = SW_MAXIMIZE
    THEN [w EXCEPT !.normal = rcNormalPosition, !.state = "Maximized",
                   !.rect = ms[pick].work_area]
    ELSE [w EXCEPT !.normal = rcNormalPosition, !.state = "Normal",
                   !.rect = rcNormalPosition]

\* SetWindowPos(x, y, cx, cy, SWP_NOZORDER | SWP_SHOWWINDOW)
os_SetWindowPos(w, x, y, cx, cy) ==
    LET r == Rect(x, y, x + cx, y + cy)
    IN  [w EXCEPT !.rect = r,
                  !.normal = IF w.state = "Normal" THEN r ELSE w.normal]

\* ShowWindow(SW_MAXIMIZE)
os_ShowWindowMaximize(w, ms, pick) ==
    [w EXCEPT !.state = "Maximized", !.rect = ms[pick].work_area]

\* SetForegroundWindow: the window keeps its state and its rectangles
os_SetForegroundWindow(w) == w

\* one issued Win32 call: its name, whether it succeeded, and its arguments
Call(name, ok, rect, cmd) == [call |-> name, ok |-> ok, rect |-> rect, cmd |-> cmd]

(***************************************************************************)
(* windows.rs: move_window_to_monitor_with_options                         *)
(***************************************************************************)
\* a scaling by the larger of the two ratios
scaled_size_larger_factor(w0, h0, tgt, src) ==
    IF width(tgt.work_area) * height(src.work_area)
          >= height(tgt.work_area) * width(src.work_area)
    THEN <<TruncDiv(w0 * width(tgt.work_area), width(src.work_area)),
           TruncDiv(h0 * width(tgt.work_area), width(src.work_area))>>
    ELSE <<TruncDiv(w0 * height(tgt.work_area), height(src.work_area)),
           TruncDiv(h0 * height(tgt.work_area), height(src.work_area))>>

\* a scaling that applies scale_x to the width and scale_y to the height
scaled_size_per_axis(w0, h0, tgt, src) ==
    <<TruncDiv(w0 * width(tgt.work_area), width(src.work_area)),
      TruncDiv(h0 * height(tgt.work_area), height(src.work_area))>>

\* lines 467-480: the size scaled by min(scale_x, scale_y), each product
\* truncated (`as i32`); the work areas have positive width and height
scaled_size(w0, h0, tgt, src) ==
    LET src_width == width(src.work_area)
        src_height == height(src.work_area)
        tgt_width == width(tgt.work_area)
        tgt_height == height(tgt.work_area)
        xSmaller == tgt_width * src_height <= tgt_height * src_width
        num == IF xSmaller THEN tgt_width ELSE tgt_height
        den == IF xSmaller THEN src_width ELSE src_height
    IN  <<TruncDiv(w0 * num, den), TruncDiv(h0 * num, den)>>

\* a size that is scaled but not clamped to the target work area
clamped_size_unclamped(sz, tgt) == sz

\* lines 482-488: the size clamped to the target work area
clamped_size(sz, tgt) ==
    <<Min(sz[1], width(tgt.work_area)), Min(sz[2], height(tgt.work_area))>>

\* the restore size, scaled when a source monitor is given, then clamped
target_size(current_rect, tgt, src, hasSrc) ==
    clamped_size(IF hasSrc
                 THEN scaled_size(current_rect.right - current_rect.left,
                                  current_rect.bottom - current_rect.top, tgt, src)
                 ELSE <<current_rect.right - current_rect.left,
                        current_rect.bottom - current_rect.top>>,
                 tgt)

\* a rectangle put at the top-left corner of the work area
centered_rect_uncentered(sz, wa, c) ==
    Rect(wa.left, wa.top, wa.left + sz[1], wa.top + sz[2])

\* lines 490-505: the rectangle of size sz centered on c, the center of the
\* work area wa, kept to the right of its left edge and below its top edge,
\* then to the left of its right edge and above its bottom edge
centered_rect(sz, wa, c) ==
    LET new_x == Min(Max(c[1] - TruncDiv(sz[1], 2), wa.left), wa.right - sz[1])
        new_y == Min(Max(c[2] - TruncDiv(sz[2], 2), wa.top), wa.bottom - sz[2])
    IN  Rect(new_x, new_y, new_x + sz[1], new_y + sz[2])

\* lines 463-505: the rectangle the window is sent to
target_rect(current_rect, tgt, src, hasSrc) ==
    centered_rect(target_size(current_rect, tgt, src, hasSrc), tgt.work_area,
                  monitor_center(tgt))

\* the outcome of a call: the window afterwards, the Win32 calls issued in
\* order, the returned Result, and the values computed on the way
Outcome(w, calls, result, was_minimized, was_maximized, new_rect) ==
    [win |-> w, calls |-> calls, result |-> result,
     was_minimized |-> was_minimized, was_maximized |-> was_maximized,
     new_rect |-> new_rect]

Ok == "Ok"

\* a focus request whose failure is returned as an error
focus_and_return_checked(w, calls, auto_focus, F, wmin, wmax, new_rect) ==
    IF auto_focus
    THEN LET ok == w.valid /\ "SetForegroundWindow" \notin F
         IN  Outcome(IF ok THEN os_SetForegroundWindow(w) ELSE w,
                     Append(calls, Call("SetForegroundWindow", ok, NoRect, "")),
                     IF ok THEN Ok ELSE "Failed to focus window",
                     wmin, wmax, new_rect)
    ELSE Outcome(w, calls, Ok, wmin, wmax, new_rect)

\* lines 556-561: the focus request, whose result is discarded, then Ok(())
focus_and_return(w, calls, auto_focus, F, wmin, wmax, new_rect) ==
    IF auto_focus
    THEN LET ok == w.valid /\ "SetForegroundWindow" \notin F
         IN  Outcome(IF ok THEN os_SetForegroundWindow(w) ELSE w,
                     Append(calls, Call("SetForegroundWindow", ok, NoRect, "")),
                     Ok, wmin, wmax, new_rect)
    ELSE Outcome(w, calls, Ok, wmin, wmax, new_rect)

\* a move that never re-maximizes
maximize_step_skipped(w, calls, maximize, F, ms, pick) ==
    [win |-> w, calls |-> calls]

\* lines 528-531 and 551-553: the maximize command, whose result is discarded
maximize_step(w, calls, maximize, F, ms, pick) ==
    IF maximize
    THEN LET ok == w.valid /\ "ShowWindow" \notin F
         IN  [win |-> IF ok THEN os_ShowWindowMaximize(w, ms, pick) ELSE w,
              calls |-> Append(calls, Call("ShowWindow", ok, NoRect, SW_MAXIMIZE))]
    ELSE [win |-> w, calls |-> calls]

\* the focus request after the maximize step m
focus_after(m, auto_focus, F, wmin, wmax, new_rect) ==
    focus_and_return(m.win, m.calls, auto_focus, F, wmin, wmax, new_rect)

\* a maximized branch that re-maximizes before it moves the window
maximized_branch_maximize_first(w, ms, c0, new_rect, maximize, auto_focus, F, pick, setPlOk, setPosOk) ==
    IF ~setPlOk
    THEN Outcome(w, Append(c0, Call("SetWindowPlacement", FALSE, new_rect, SW_RESTORE)),
                 "Failed to restore window", FALSE, TRUE, new_rect)
    ELSE LET m == maximize_step(
                    os_SetWindowPlacement(w, new_rect, SW_RESTORE, ms, pick),
                    Append(c0, Call("SetWindowPlacement", TRUE, new_rect, SW_RESTORE)),
                    maximize, F, ms, pick)
         IN  IF ~setPosOk
             THEN Outcome(m.win, Append(m.calls, Call("SetWindowPos", FALSE, new_rect, "")),
                          "Failed to move window", FALSE, TRUE, new_rect)
             ELSE focus_and_return(
                     os_SetWindowPos(m.win, new_rect.left, new_rect.top,
                                     new_rect.right - new_rect.left,
                                     new_rect.bottom - new_rect.top),
                     Append(m.calls, Call("SetWindowPos", TRUE, new_rect, "")),
                     auto_focus, F, FALSE, TRUE, new_rect)

\* a maximized branch that puts the window back as it was when the
\* move/resize fails
maximized_branch_rollback(w, ms, c0, new_rect, maximize, auto_focus, F, pick, setPlOk, setPosOk) ==
    IF ~setPlOk
    THEN Outcome(w, Append(c0, Call("SetWindowPlacement", FALSE, new_rect, SW_RESTORE)),
                 "Failed to restore window", FALSE, TRUE, new_rect)
    ELSE IF ~setPosOk
    THEN Outcome(w,
                 c0 \o <<Call("SetWindowPlacement", TRUE, new_rect, SW_RESTORE),
                         Call("SetWindowPos", FALSE, new_rect, ""),
                         Call("SetWindowPlacement", TRUE, w.normal, SW_MAXIMIZE)>>,
                 "Failed to move window", FALSE, TRUE, new_rect)
    ELSE focus_after(
            maximize_step(
                os_SetWindowPos(os_SetWindowPlacement(w, new_rect, SW_RESTORE, ms, pick),
                                new_rect.left, new_rect.top,
                                new_rect.right - new_rect.left,
                                new_rect.bottom - new_rect.top),
                c0 \o <<Call("SetWindowPlacement", TRUE, new_rect, SW_RESTORE),
                        Call("SetWindowPos", TRUE, new_rect, "")>>,
                maximize, F, ms, pick),
            auto_focus, F, FALSE, TRUE, new_rect)

\* lines 510-531: the branch of a window that was maximized
maximized_branch(w, ms, c0, new_rect, maximize, auto_focus, F, pick, setPlOk, setPosOk) ==
    IF ~setPlOk
    THEN Outcome(w, Append(c0, Call("SetWindowPlacement", FALSE, new_rect, SW_RESTORE)),
                 "Failed to restore window", FALSE, TRUE, new_rect)
    ELSE IF ~setPosOk
    THEN Outcome(os_SetWindowPlacement(w, new_rect, SW_RESTORE, ms, pick),
                 c0 \o <<Call("SetWindowPlacement", TRUE, new_rect, SW_RESTORE),
                         Call("SetWindowPos", FALSE, new_rect, "")>>,
                 "Failed to move window", FALSE, TRUE, new_rect)
    ELSE focus_after(
            maximize_step(
                os_SetWindowPos(os_SetWindowPlacement(w, new_rect, SW_RESTORE, ms, pick),
                                new_rect.left, new_rect.top,
                                new_rect.right - new_rect.left,
                                new_rect.bottom - new_rect.top),
                c0 \o <<Call("SetWindowPlacement", TRUE, new_rect, SW_RESTORE),
                        Call("SetWindowPos", TRUE, new_rect, "")>>,
                maximize, F, ms, pick),
            auto_focus, F, FALSE, TRUE, new_rect)

\* lines 532-537: the branch of a window that was minimized
minimized_branch(w, ms, c0, new_rect, show_cmd, auto_focus, F, pick, setPlOk) ==
    IF ~setPlOk
    THEN Outcome(w, Append(c0, Call("SetWindowPlacement", FALSE, new_rect, show_cmd)),
                 "Failed to set window placement", TRUE, FALSE, new_rect)
    ELSE focus_and_return(os_SetWindowPlacement(w, new_rect, show_cmd, ms, pick),
                          Append(c0, Call("SetWindowPlacement", TRUE, new_rect, show_cmd)),
                          auto_focus, F, TRUE, FALSE, new_rect)

\* lines 538-554: the branch of a window that was neither
normal_branch(w, ms, c0, new_rect, maximize, auto_focus, F, pick, setPosOk) ==
    IF ~setPosOk
    THEN Outcome(w, Append(c0, Call("SetWindowPos", FALSE, new_rect, "")),
                 "Failed to move window", FALSE, FALSE, new_rect)
    ELSE focus_after(
            maximize_step(
                os_SetWindowPos(w, new_rect.left, new_rect.top,
                                new_rect.right - new_rect.left,
                                new_rect.bottom - new_rect.top),
                Append(c0, Call("SetWindowPos", TRUE, new_rect, "")),
                maximize, F, ms, pick),
            auto_focus, F, FALSE, FALSE, new_rect)

\* a branch choice that tests the minimized flag first
apply_move_minimized_first(w, ms, c0, new_rect, was_minimized, was_maximized, maximize, auto_focus, F, pick) ==
    IF was_minimized
    THEN minimized_branch(w, ms, c0, new_rect,
                          IF maximize THEN SW_MAXIMIZE ELSE SW_RESTORE,
                          auto_focus, F, pick,
                          w.valid /\ "SetWindowPlacement" \notin F)
    ELSE IF was_maximized
    THEN maximized_branch(w, ms, c0, new_rect, maximize, auto_focus, F, pick,
                          w.valid /\ "SetWindowPlacement" \notin F,
                          w.valid /\ "SetWindowPos" \notin F)
    ELSE normal_branch(w, ms, c0, new_rect, maximize, auto_focus, F, pick,
                       w.valid /\ "SetWindowPos" \notin F)

\* lines 507-561: the branch taken on the flags read at the start
apply_move(w, ms, c0, new_rect, was_minimized, was_maximized, maximize, auto_focus, F, pick) ==
    IF was_maximized
    THEN maximized_branch(w, ms, c0, new_rect, maximize, auto_focus, F, pick,
                          w.valid /\ "SetWindowPlacement" \notin F,
                          w.valid /\ "SetWindowPos" \notin F)
    ELSE IF was_minimized
    THEN minimized_branch(w, ms, c0, new_rect,
                          IF maximize THEN SW_MAXIMIZE ELSE SW_RESTORE,
                          auto_focus, F, pick,
                          w.valid /\ "SetWindowPlacement" \notin F)
    ELSE normal_branch(w, ms, c0, new_rect, maximize, auto_focus, F, pick,
                       w.valid /\ "SetWindowPos" \notin F)

\* lines 451-461: the two flag reads and the placement read
read_calls(getOk) ==
    <<Call("IsIconic", TRUE, NoRect, ""), Call("IsZoomed", TRUE, NoRect, ""),
      Call("GetWindowPlacement", getOk, NoRect, "")>>

\* a move that goes on with a default placement when the read fails
move_window_placement_unchecked(w, ms, target, source, maximize, auto_focus, F, pick) ==
    apply_move(w, ms, read_calls(w.valid /\ "GetWindowPlacement" \notin F),
               target_rect(IF w.valid /\ "GetWindowPlacement" \notin F
                           THEN w.normal ELSE Rect(0, 0, 0, 0),
                           ms[target],
                           ms[IF source = 0 THEN target ELSE source], source # 0),
               IsIconic(w), IsZoomed(w), maximize, auto_focus, F, pick)

\* F: the Win32 calls that fail in this run; on a stale handle all of them do.
\* pick: the monitor Win32 maximizes the window on.
\* source: an index of the monitor list, or 0 for None.
move_window_to_monitor_with_options(w, ms, target, source, maximize, auto_focus, F, pick) ==
    IF ~(w.valid /\ "GetWindowPlacement" \notin F)
    THEN Outcome(w, read_calls(FALSE), "Failed to get window placement",
                 IsIconic(w), IsZoomed(w), NoRect)
    ELSE apply_move(w, ms, read_calls(TRUE),
                    target_rect(w.normal, ms[target],
                                ms[IF source = 0 THEN target ELSE source], source # 0),
                    IsIconic(w), IsZoomed(w), maximize, auto_focus, F, pick)

\* lines 451-563 when the window changes between the two flag reads: w1 is
\* the window IsIconic (line 452) saw, w the window from IsZoomed (line 453)
\* on. The two reads are separate Win32 calls on a window of another
\* process.
move_window_between_reads(w1, w, ms, target, source, maximize, auto_focus, F, pick) ==
    IF ~(w.valid /\ "GetWindowPlacement" \notin F)
    THEN Outcome(w, read_calls(FALSE), "Failed to get window placement",
                 IsIconic(w1), IsZoomed(w), NoRect)
    ELSE apply_move(w, ms, read_calls(TRUE),
                    target_rect(w.normal, ms[target],
                                ms[IF source = 0 THEN target ELSE source], source # 0),
                    IsIconic(w1), IsZoomed(w), maximize, auto_focus, F, pick)

\* lines 431-433
move_window_to_monitor(w, ms, target, F, pick) ==
    move_window_to_monitor_with_options(w, ms, target, 0, TRUE, TRUE, F, pick)

\* monitors.iter().position(|m| m.name == name), 1-based (0: not found)
RECURSIVE position(_, _, _)
position(ms, name, i) ==
    IF i > Len(ms) THEN 0
    ELSE IF ms[i].name = name THEN i
    ELSE position(ms, name, i + 1)

\* a current index that is always the first monitor's
current_idx_first(rect, ms) == 1

\* lines 683-685: the index of the monitor the window is on, the first
\* monitor when it is on none
current_idx(rect, ms) ==
    LET name == find_window_monitor(rect, ms)
        pos == IF name = None THEN 0 ELSE position(ms, name, 1)
    IN  IF pos = 0 THEN 1 ELSE pos

\* a successor that steps backwards through the list
next_idx_backwards(cur, n) == ((cur + n - 2) % n) + 1

\* line 688: (current_idx + 1) % monitors.len(), on 1-based indices
next_idx(cur, n) == (cur % n) + 1

\* what an operation did: the window it found, its arguments to
\* move_window_to_monitor_with_options (target and source as list indices,
\* source 0 for None; moved tells whether that function was entered) and the
\* outcome
CallRecord(op, before, moved, target, source, maximize, auto_focus, out) ==
    [op |-> op, before |-> before,
     moved |-> moved, target |-> target, source |-> source,
     maximize |-> maximize, auto_focus |-> auto_focus,
     calls |-> out.calls, result |-> out.result,
     was_minimized |-> out.was_minimized, was_maximized |-> out.was_maximized,
     new_rect |-> out.new_rect]

\* an empty list taken for "nothing to do"
move_to_next_monitor_empty_ok(w) ==
    CallRecord("move_to_next_monitor", w, FALSE, 0, 0, FALSE, FALSE,
               Outcome(w, <<>>, Ok, FALSE, FALSE, NoRect))

\* lines 659-661: the record of a call with an empty monitor list
move_to_next_monitor_empty(w) ==
    CallRecord("move_to_next_monitor", w, FALSE, 0, 0, FALSE, FALSE,
               Outcome(w, <<>>, "No monitors available", FALSE, FALSE, NoRect))

\* a single monitor taken for an error
move_to_next_monitor_single_err(w) ==
    CallRecord("move_to_next_monitor", w, FALSE, 0, 0, FALSE, FALSE,
               Outcome(w, <<>>, "No monitors available", FALSE, FALSE, NoRect))

\* lines 663-665: the record of a call with exactly one monitor
move_to_next_monitor_single(w) ==
    CallRecord("move_to_next_monitor", w, FALSE, 0, 0, FALSE, FALSE,
               Outcome(w, <<>>, Ok, FALSE, FALSE, NoRect))

\* line 692: the call of move_window_to_monitor_with_options and its result
next_monitor_move(w, c0, nxt, cur, out) ==
    [rec |-> CallRecord("move_to_next_monitor", w, TRUE, nxt, cur, FALSE, TRUE,
                        [out EXCEPT !.calls = c0 \o out.calls]),
     win |-> out.win]

\* lines 667-693, once the live rectangle is read: cur is the current index
next_monitor_from(w, ms, cur, F, pick) ==
    next_monitor_move(w, <<Call("GetWindowRect", TRUE, NoRect, "")>>,
        next_idx(cur, Len(ms)), cur,
        move_window_to_monitor_with_options(w, ms, next_idx(cur, Len(ms)), cur,
                                            FALSE, TRUE, F, pick))

\* lines 658-694: the record of the call; .win is the window afterwards
move_to_next_monitor(w, ms, F, pick) ==
    IF Len(ms) = 0
    THEN [rec |-> move_to_next_monitor_empty(w), win |-> w]
    ELSE IF Len(ms) = 1
    THEN [rec |-> move_to_next_monitor_single(w), win |-> w]
    ELSE IF ~(w.valid /\ "GetWindowRect" \notin F)
    THEN [rec |-> CallRecord("move_to_next_monitor", w, FALSE, 0, 0, FALSE, FALSE,
                     Outcome(w, <<Call("GetWindowRect", FALSE, NoRect, "")>>,
                             "Failed to get window rect", FALSE, FALSE, NoRect)),
          win |-> w]
    ELSE next_monitor_from(w, ms, current_idx(w.rect, ms), F, pick)

\* the monitors Win32 may maximize the window on during the call
next_monitor_picks(w, ms) ==
    IF Len(ms) < 2 THEN {0}
    ELSE os_monitor_candidates(
            target_rect(w.normal, ms[next_idx(current_idx(w.rect, ms), Len(ms))],
                        ms[current_idx(w.rect, ms)], TRUE), ms)

(***************************************************************************)
(* windows.rs: center_window                                               *)
(***************************************************************************)
\* monitors.iter().find(|m| m.is_primary), as a 1-based index (0: none)
RECURSIVE find_primary(_, _)
find_primary(ms, i) ==
    IF i > Len(ms) THEN 0
    ELSE IF ms[i].is_primary THEN i
    ELSE find_primary(ms, i + 1)

\* a choice of monitor without the fallback to the primary monitor
center_monitor_no_fallback(rect, ms) ==
    LET name == find_window_monitor(rect, ms)
    IN  IF name = None THEN 0 ELSE position(ms, name, 1)

\* lines 624-628: the monitor the rectangle is on by the center/overlap rule,
\* the primary monitor when the rule gives none (0: no monitor found)
center_monitor(rect, ms) ==
    LET name == find_window_monitor(rect, ms)
        pos == IF name = None THEN 0 ELSE position(ms, name, 1)
    IN  IF pos # 0 THEN pos ELSE find_primary(ms, 1)

\* lines 630-640: the live size centered on the work-area center, then
\* .max(work_area.left).min(work_area.right - width), and the same for y
center_position(rect, m) ==
    LET c == monitor_center(m)
        new_x == Min(Max(c[1] - TruncDiv(width(rect), 2), m.work_area.left),
                     m.work_area.right - width(rect))
        new_y == Min(Max(c[2] - TruncDiv(height(rect), 2), m.work_area.top),
                     m.work_area.bottom - height(rect))
    IN  Rect(new_x, new_y, new_x + width(rect), new_y + height(rect))

\* lines 642-653: the SetWindowPos call and the returned Result
center_apply(w, c0, k, new_rect, setPosOk) ==
    IF ~setPosOk
    THEN [rec |-> CallRecord("center_window", w, FALSE, k, 0, FALSE, FALSE,
                     Outcome(w, Append(c0, Call("SetWindowPos", FALSE, new_rect, "")),
                             "Failed to center window", FALSE, FALSE, new_rect)),
          win |-> w]
    ELSE [rec |-> CallRecord("center_window", w, FALSE, k, 0, FALSE, FALSE,
                     Outcome(w, Append(c0, Call("SetWindowPos", TRUE, new_rect, "")),
                             Ok, FALSE, FALSE, new_rect)),
          win |-> os_SetWindowPos(w, new_rect.left, new_rect.top,
                                  new_rect.right - new_rect.left,
                                  new_rect.bottom - new_rect.top)]

\* lines 608-655: the record of the call (target: the monitor the window was
\* determined to be on); .win is the window afterwards
center_window(w, ms, F) ==
    IF ~(w.valid /\ "GetWindowRect" \notin F)
    THEN [rec |-> CallRecord("center_window", w, FALSE, 0, 0, FALSE, FALSE,
                     Outcome(w, <<Call("GetWindowRect", FALSE, NoRect, "")>>,
                             "Failed to get window rect", FALSE, FALSE, NoRect)),
          win |-> w]
    ELSE IF center_monitor(w.rect, ms) = 0
    THEN [rec |-> CallRecord("center_window", w, FALSE, 0, 0, FALSE, FALSE,
                     Outcome(w, <<Call("GetWindowRect", TRUE, NoRect, "")>>,
                             "No monitor found", FALSE, FALSE, NoRect)),
          win |-> w]
    ELSE center_apply(w, <<Call("GetWindowRect", TRUE, NoRect, "")>>,
                      center_monitor(w.rect, ms),
                      center_position(w.rect, ms[center_monitor(w.rect, ms)]),
                      "SetWindowPos" \notin F)

(***************************************************************************)
(* Spec: the repositioning operations on one window of a desktop.          *)
(***************************************************************************)
OsCalls == {"GetWindowRect", "GetWindowPlacement", "SetWindowPlacement",
            "SetWindowPos", "ShowWindow", "SetForegroundWindow"}

\* no call fails, or one of them does
FailureSets == {{}} \cup {{c} : c \in OsCalls}

\* monitor lists as enumerate_monitors returns them: bounds that do not
\* overlap, a work area of positive size inside the bounds; the empty list is
\* what a failed EnumDisplayMonitors leaves, the list without a primary
\* monitor what a failed detail query of the primary monitor leaves
Layouts ==
    LET Ab == Rect(0, 0, 4, 4)
        Aw == Rect(0, 0, 4, 3)
        Bb == Rect(4, 0, 10, 6)
        Bw == Rect(4, 0, 10, 5)
        Cb == Rect(10, 0, 14, 4)
        Cw == Rect(10, 1, 14, 4)
    IN  { <<>>,
          <<Monitor(0, Ab, Aw, TRUE)>>,
          <<Monitor(1, Bb, Bw, FALSE)>>,
          <<Monitor(0, Ab, Aw, TRUE), Monitor(1, Bb, Bw, FALSE)>>,
          <<Monitor(0, Bb, Bw, FALSE), Monitor(1, Ab, Aw, TRUE)>>,
          <<Monitor(0, Ab, Aw, TRUE), Monitor(1, Bb, Bw, FALSE), Monitor(2, Cb, Cw, FALSE)>> }

\* where the window's restore rectangle starts: on the first monitor, across
\* an edge, and off every monitor
InitOrigins == {<<1, 1>>, <<3, 1>>, <<-9, 1>>}

InitRects ==
    {Rect(o[1], o[2], o[1] + w, o[2] + h) :
        o \in InitOrigins, w \in 1..MaxWinSize, h \in 1..MaxWinSize}

Init ==
    /\ monitors \in Layouts
    /\ \E r \in InitRects :
          \/ win = Window(TRUE, "Normal", r, r)
          \/ win = Window(TRUE, "Minimized", IconRect, r)
          \/ \E k \in 1..Len(monitors) :
                win = Window(TRUE, "Maximized", monitors[k].work_area, r)
    /\ snap = NoWindow
    /\ last = NoCall
    /\ desktop = <<>>
    /\ displays = <<>>
    /\ scans = NoScans
    /\ keys = NoKeys
    /\ app = NoApp
    /\ tasks = NoTasks

\* a call of move_window_to_monitor_with_options; `last` keeps its record
\* until the caller takes the result or the desktop changes
MoveWindow ==
    /\ last = NoCall
    /\ \E target \in 1..Len(monitors), source \in 0..Len(monitors),
          maximize \in BOOLEAN, auto_focus \in BOOLEAN, F \in FailureSets :
          \E pick \in os_monitor_candidates(
                        target_rect(win.normal, monitors[target],
                                    monitors[IF source = 0 THEN target ELSE source],
                                    source # 0),
                        monitors) :
             \E out \in {move_window_to_monitor_with_options(
                            win, monitors, target, source, maximize, auto_focus, F, pick)} :
                 /\ win' = out.win
                 /\ last' = CallRecord("move_window", win, TRUE, target, source,
                                       maximize, auto_focus, out)
    /\ UNCHANGED <<monitors, snap, desktop, displays, scans, keys, app, tasks>>

\* a call of move_window on a minimized window that its owner maximizes
\* after IsIconic was read and before IsZoomed is: both flags read true
MoveWindowBetweenReads ==
    /\ last = NoCall
    /\ win.valid /\ win.state = "Minimized"
    /\ \E target \in 1..Len(monitors), source \in 0..Len(monitors),
          maximize \in BOOLEAN, auto_focus \in BOOLEAN, F \in FailureSets :
          \E shown \in os_monitor_candidates(win.normal, monitors),
             pick \in os_monitor_candidates(
                        target_rect(win.normal, monitors[target],
                                    monitors[IF source = 0 THEN target ELSE source],
                                    source # 0),
                        monitors) :
             \E w \in {os_ShowWindowMaximize(win, monitors, shown)} :
               \E out \in {move_window_between_reads(
                              win, w, monitors, target, source, maximize, auto_focus,
                              F, pick)} :
                 /\ win' = out.win
                 /\ last' = [CallRecord("move_window", w, TRUE, target, source,
                                        maximize, auto_focus, out)
                               EXCEPT !.was_minimized = IsIconic(win),
                                      !.was_maximized = IsZoomed(w)]
    /\ UNCHANGED <<monitors, snap, desktop, displays, scans, keys, app, tasks>>

\* a call of move_to_next_monitor
MoveToNextMonitor ==
    /\ last = NoCall
    /\ \E F \in FailureSets, pick \in next_monitor_picks(win, monitors) :
          \E r \in {move_to_next_monitor(win, monitors, F, pick)} :
             /\ win' = r.win
             /\ last' = r.rec
    /\ UNCHANGED <<monitors, snap, desktop, displays, scans, keys, app, tasks>>

\* a call of center_window
CenterWindow ==
    /\ last = NoCall
    /\ \E F \in FailureSets :
          \E r \in {center_window(win, monitors, F)} :
             /\ win' = r.win
             /\ last' = r.rec
    /\ UNCHANGED <<monitors, snap, desktop, displays, scans, keys, app, tasks>>

\* the user minimizes the window
UserMinimize ==
    /\ win.valid /\ win.state # "Minimized"
    /\ win' = [win EXCEPT !.state = "Minimized", !.rect = IconRect]
    /\ last' = NoCall
    /\ UNCHANGED <<monitors, snap, desktop, displays, scans, keys, app, tasks>>

\* the user maximizes the window
UserMaximize ==
    /\ win.valid /\ win.state = "Normal" /\ Len(monitors) > 0
    /\ \E pick \in os_monitor_candidates(win.rect, monitors) :
          win' = os_ShowWindowMaximize(win, monitors, pick)
    /\ last' = NoCall
    /\ UNCHANGED <<monitors, snap, desktop, displays, scans, keys, app, tasks>>

\* the user restores the window to its restore rectangle
UserRestore ==
    /\ win.valid /\ win.state # "Normal"
    /\ win' = [win EXCEPT !.state = "Normal", !.rect = win.normal]
    /\ last' = NoCall
    /\ UNCHANGED <<monitors, snap, desktop, displays, scans, keys, app, tasks>>

\* the window is destroyed: its handle is stale from now on
CloseWindow ==
    /\ win.valid
    /\ win' = Window(FALSE, "Destroyed", Rect(0, 0, 0, 0), Rect(0, 0, 0, 0))
    /\ last' = NoCall
    /\ UNCHANGED <<monitors, snap, desktop, displays, scans, keys, app, tasks>>

\* the caller has taken the result of the call; the next call can be issued
Forget ==
    /\ last # NoCall
    /\ last' = NoCall
    /\ UNCHANGED <<monitors, win, snap, desktop, displays, scans, keys, app, tasks>>

Next ==
    \/ MoveWindow
    \/ MoveWindowBetweenReads
    \/ MoveToNextMonitor
    \/ CenterWindow
    \/ UserMinimize
    \/ UserMaximize
    \/ UserRestore
    \/ CloseWindow
    \/ Forget

Spec == Init /\ [][Next]_vars

(***************************************************************************)
(* SpecEnum: two callers enumerate the windows and the monitors of a       *)
(* desktop that does not change meanwhile; the OS runs one callback at a   *)
(* time for each call, in any interleaving.                                *)
(***************************************************************************)
\* the windows a desktop is drawn from: titles that differ in case only,
\* titles of the SKIP_TITLES list in several spellings; on a monitor, off
\* every monitor, minimized with a restore rectangle off every monitor
WindowPool ==
    LET on == Window(TRUE, "Normal", Rect(1, 1, 3, 3), Rect(1, 1, 3, 3))
        off == Window(TRUE, "Normal", Rect(-9, 1, -7, 3), Rect(-9, 1, -7, 3))
        min == Window(TRUE, "Minimized", IconRect, Rect(-9, 1, -7, 3))
    IN  { [title |-> "Zed", win |-> on],
          [title |-> "Ant", win |-> on],
          [title |-> "ant", win |-> on],
          [title |-> "Bee", win |-> off],
          [title |-> "Settings", win |-> on],
          [title |-> "settings", win |-> min],
          [title |-> "The DWM Notification", win |-> on] }

\* the desktops: up to MaxWindows windows in the order EnumWindows visits
\* them; the handle of a window is its position in that order
Desktops ==
    UNION { { [i \in 1..n |-> [hwnd |-> i, title |-> f[i].title, win |-> f[i].win,
                               rectFails |-> FALSE]] :
                f \in [1..n -> WindowPool] } : n \in 0..MaxWindows }

\* the display lists: up to MaxDisplays monitors side by side, one of them
\* primary, GetMonitorInfoW failing for any of them
DisplayLists ==
    {<<>>} \cup
    UNION { { [i \in 1..n |->
                 [handle |-> i,
                  bounds |-> Rect(4 * (i - 1), 0, 4 * i, 4),
                  work_area |-> Rect(4 * (i - 1), 0, 4 * i, 3),
                  is_primary |-> (i = p),
                  queryFails |-> (i \in fails)]] :
                p \in 1..n, fails \in SUBSET (1..n) } : n \in 1..MaxDisplays }

InitEnum ==
    /\ monitors \in {l \in Layouts : Len(l) = 2 /\ l[1].is_primary}
    /\ win = Window(FALSE, "Destroyed", Rect(0, 0, 0, 0), Rect(0, 0, 0, 0))
    /\ snap = NoWindow
    /\ last = NoCall
    /\ \/ /\ desktop \in Desktops
          /\ displays \in {d \in DisplayLists :
                             Len(d) = 2 /\ \A i \in 1..2 : ~d[i].queryFails}
       \/ /\ desktop = <<>>
          /\ displays \in DisplayLists
    /\ scans = NoScans
    /\ keys = NoKeys
    /\ app = NoApp
    /\ tasks = NoTasks

\* windows.rs lines 24-26: a call of enumerate_windows(monitors) begins
StartWindows(c) ==
    /\ scans[c].kind = "idle"
    /\ scans' = [scans EXCEPT ![c] = Scan("windows", 0, <<>>, FALSE, <<>>)]
    /\ UNCHANGED <<monitors, win, snap, last, desktop, displays, keys, app, tasks>>

\* windows.rs lines 53-166: EnumWindows hands the next window to the callback
WindowsCallback(c) ==
    /\ scans[c].kind = "windows" /\ ~scans[c].done
    /\ scans[c].pos < Len(desktop)
    /\ \E item \in {window_info(desktop[scans[c].pos + 1])} :
          scans' = [(IF item.listed THEN push(scans, c, item) ELSE scans)
                        EXCEPT ![c].pos = @ + 1]
    /\ UNCHANGED <<monitors, win, snap, last, desktop, displays, keys, app, tasks>>

\* windows.rs lines 35-50: EnumWindows has returned; flags, sort, return
FinishWindows(c) ==
    /\ scans[c].kind = "windows" /\ ~scans[c].done
    /\ scans[c].pos = Len(desktop)
    /\ scans' = [scans EXCEPT ![c] =
                    Scan("windows", @.pos, <<>>, TRUE,
                         sort_by(update_offscreen(@.acc, monitors), 1, <<>>))]
    /\ UNCHANGED <<monitors, win, snap, last, desktop, displays, keys, app, tasks>>

\* monitors.rs line 14: a call of enumerate_monitors() begins
StartMonitors(c) ==
    /\ scans[c].kind = "idle"
    /\ scans' = [scans EXCEPT ![c] = Scan("monitors", 0, <<>>, FALSE, <<>>)]
    /\ UNCHANGED <<monitors, win, snap, last, desktop, displays, keys, app, tasks>>

\* monitors.rs lines 33-47: EnumDisplayMonitors hands the next monitor over
MonitorsCallback(c) ==
    /\ scans[c].kind = "monitors" /\ ~scans[c].done
    /\ scans[c].pos < Len(displays)
    /\ scans' = [push(scans, c, monitor_entry(scans[c].acc,
                                              displays[scans[c].pos + 1].handle))
                    EXCEPT ![c].pos = @ + 1]
    /\ UNCHANGED <<monitors, win, snap, last, desktop, displays, keys, app, tasks>>

\* monitors.rs lines 25-30: EnumDisplayMonitors has returned; query, return
FinishMonitors(c) ==
    /\ scans[c].kind = "monitors" /\ ~scans[c].done
    /\ scans[c].pos = Len(displays)
    /\ scans' = [scans EXCEPT ![c] =
                    Scan("monitors", @.pos, <<>>, TRUE,
                         filter_map_monitors(@.acc, displays, 1))]
    /\ UNCHANGED <<monitors, win, snap, last, desktop, displays, keys, app, tasks>>

NextEnum ==
    \E c \in Callers :
        \/ StartWindows(c)
        \/ WindowsCallback(c)
        \/ FinishWindows(c)
        \/ StartMonitors(c)
        \/ MonitorsCallback(c)
        \/ FinishMonitors(c)

SpecEnum == InitEnum /\ [][NextEnum]_vars

(***************************************************************************)
(* Properties of the classification (SpecGeom).                            *)
(***************************************************************************)
\* strict overlap of two rectangles on both axes, edges that touch excluded
StrictOverlap(a, b) ==
    /\ a.left < b.right /\ b.left < a.right
    /\ a.top < b.bottom /\ b.top < a.bottom

\* the center of a rectangle lies in b under the half-open test
CenterWithin(r, b) ==
    LET cx == r.left + TruncDiv(r.right - r.left, 2)
        cy == r.top + TruncDiv(r.bottom - r.top, 2)
    IN  b.left <= cx /\ cx < b.right /\ b.top <= cy /\ cy < b.bottom

\* the overlap area of a rectangle with b
Area(r, b) ==
    (Min(r.right, b.right) - Max(r.left, b.left))
        * (Min(r.bottom, b.bottom) - Max(r.top, b.top))

Idx == 1..Len(monitors)

\* the monitors that intersect the listed rectangle
Touched == {i \in Idx : StrictOverlap(snap.rect, monitors[i].bounds)}

\* those of them with the largest overlap area
Largest == {i \in Touched : \A j \in Touched :
                Area(snap.rect, monitors[j].bounds) <= Area(snap.rect, monitors[i].bounds)}

NoCenterMonitor == \A i \in Idx : ~CenterWithin(snap.rect, monitors[i].bounds)

\* C1: a listed window is flagged off-screen if and only if no monitor of the
\* list passed to the enumeration (the empty list included) has bounds that
\* strictly overlap the window's rectangle on both axes.
C1_OffscreenIffNoIntersection ==
    snap.listed =>
        (snap.is_offscreen <=>
            ~(\E i \in Idx : StrictOverlap(snap.rect, monitors[i].bounds)))

\* C1 witness: a listed window that only touches a monitor along an edge and
\* is flagged off-screen.
C1_Witness ==
    /\ snap.listed
    /\ snap.is_offscreen
    /\ snap.rect.left < snap.rect.right /\ snap.rect.top < snap.rect.bottom
    /\ \E i \in Idx : intersects_touching(snap.rect, monitors[i].bounds)

C3_Original ==
    (snap.listed /\ NoCenterMonitor) =>
        IF Touched = {} THEN snap.monitor_name = None
        ELSE \E k \in Largest :
                /\ \A j \in Largest : k <= j
                /\ snap.monitor_name = monitors[k].name

\* C3 amended: when the center lies in no monitor, the window is assigned to
\* the intersecting monitor with the largest overlap area, to the LAST of them
\* in list order when several tie, and to none when none intersects.
C3_LargestOverlapLastWins ==
    (snap.listed /\ NoCenterMonitor) =>
        IF Touched = {} THEN snap.monitor_name = None
        ELSE \E k \in Largest :
                /\ \A j \in Largest : j <= k
                /\ snap.monitor_name = monitors[k].name

\* C3 witness: the center lies in no monitor, two monitors tie for the largest
\* overlap area and the later one is assigned.
C3_Witness ==
    /\ snap.listed
    /\ NoCenterMonitor
    /\ \E i, j \in Largest : i < j /\ snap.monitor_name = monitors[j].name

\* C16: the rectangle of a listed window is its restore rectangle when the
\* window is minimized and its live rectangle otherwise (never a default
\* rectangle put in place of one that could not be read), and a listed
\* window that is not minimized has positive width and height.
C16_RectangleSource ==
    snap.listed =>
        /\ snap.is_minimized <=> win.state = "Minimized"
        /\ snap.rect = IF win.state = "Minimized" THEN win.normal ELSE win.rect
        /\ (snap.rect.right - snap.rect.left <= 0
                \/ snap.rect.bottom - snap.rect.top <= 0) => snap.is_minimized

\* C16 witness: a minimized window is listed with its restore rectangle,
\* which has no width, while its live rectangle is the icon position.
C16_Witness ==
    /\ snap.listed /\ snap.is_minimized
    /\ snap.rect = win.normal /\ snap.rect # win.rect
    /\ snap.rect.right - snap.rect.left <= 0

\* C27: for every listed window, whatever the monitor list and the
\* rectangle (the zero-size and inverted restore rectangles of minimized
\* windows included), the off-screen flag is set if and only if no monitor
\* is assigned.
C27_OffscreenIffNoMonitor ==
    snap.listed => (snap.is_offscreen <=> snap.monitor_name = None)

(***************************************************************************)
(* Properties of the repositioning operations (Spec).                      *)
(***************************************************************************)
\* `last` records a call in which move_window_to_monitor_with_options ran
Moved == last.op # "none" /\ last.moved

\* the issued calls that carry the given name
CallsOf(name) == {i \in 1..Len(last.calls) : last.calls[i].call = name}

\* every issued call succeeded
AllCallsOk == \A i \in 1..Len(last.calls) : last.calls[i].ok

\* the calls whose failure the engine reports
Reported == {"GetWindowRect", "GetWindowPlacement", "SetWindowPlacement", "SetWindowPos"}

\* r lies within the work area wa and is centered in it, up to the rounding
\* of the two halvings
CenteredWithin(r, wa) ==
    /\ wa.left <= r.left /\ r.right <= wa.right
    /\ wa.top <= r.top /\ r.bottom <= wa.bottom
    /\ (r.left - wa.left) - (wa.right - r.right) \in {-1, 0, 1}
    /\ (r.top - wa.top) - (wa.bottom - r.bottom) \in {-1, 0, 1}

\* C4: after every successful move, with or without a source monitor, the
\* rectangle of every placement write and move/resize call, and the restore
\* rectangle the window is left with, are no wider and no higher than the
\* target monitor's work area.
C4_SizeWithinWorkArea ==
    (Moved /\ last.result = Ok) =>
        LET wa == monitors[last.target].work_area
        IN  /\ \A i \in 1..Len(last.calls) :
                  last.calls[i].rect # NoRect =>
                      /\ last.calls[i].rect.right - last.calls[i].rect.left
                            <= wa.right - wa.left
                      /\ last.calls[i].rect.bottom - last.calls[i].rect.top
                            <= wa.bottom - wa.top
            /\ win.normal.right - win.normal.left <= wa.right - wa.left
            /\ win.normal.bottom - win.normal.top <= wa.bottom - wa.top

\* C4 witness: a successful move without a source monitor of a window whose
\* restore rectangle was higher than the target work area.
C4_Witness ==
    /\ Moved /\ last.result = Ok /\ last.source = 0
    /\ last.before.normal.bottom - last.before.normal.top
          > monitors[last.target].work_area.bottom - monitors[last.target].work_area.top
    /\ win.normal.bottom - win.normal.top
          = monitors[last.target].work_area.bottom - monitors[last.target].work_area.top

\* C5: a window that was maximized, moved to a target with no source monitor
\* and maximize = true, every OS call succeeding, is maximized afterwards and
\* a fresh enumeration assigns it to the target monitor.
C5_MaximizedMovesToTarget ==
    (/\ last.op = "move_window"
     /\ last.was_maximized /\ last.source = 0 /\ last.maximize
     /\ AllCallsOk) =>
        /\ win.state = "Maximized"
        /\ enumerate_windows(win, monitors, FALSE).listed
        /\ enumerate_windows(win, monitors, FALSE).monitor_name
              = monitors[last.target].name

\* C5 witness: the window was maximized on another monitor than the target
\* and ends up maximized on the target.
C5_Witness ==
    /\ last.op = "move_window"
    /\ last.was_maximized /\ last.source = 0 /\ last.maximize
    /\ AllCallsOk
    /\ find_window_monitor(last.before.rect, monitors) # monitors[last.target].name
    /\ find_window_monitor(last.before.rect, monitors) # None
    /\ win.state = "Maximized"
    /\ win.rect = monitors[last.target].work_area

\* the case of C6: a minimized window, maximize = false, the call succeeds
MinimizedMoveOk ==
    /\ Moved
    /\ last.was_minimized /\ ~last.was_maximized /\ ~last.maximize
    /\ last.result = Ok

\* C6 as claimed: the window is still minimized after the call, and its
\* restore rectangle is the target rectangle centered in the target work area.
C6_Original ==
    MinimizedMoveOk =>
        /\ win.state = "Minimized"
        /\ win.normal = last.new_rect
        /\ CenteredWithin(win.normal, monitors[last.target].work_area)

\* C6 amended: the only call that changes the window is one placement write,
\* which carries the target rectangle and the "restore" show-command; the
\* restore rectangle is then that rectangle, centered within the target work
\* area; the write applies the show-command, so the window is no longer
\* minimized but shown in Normal state at that rectangle.
C6_MinimizedPlacementWrite ==
    MinimizedMoveOk =>
        /\ \E i \in 1..Len(last.calls) :
              /\ CallsOf("SetWindowPlacement") = {i}
              /\ last.calls[i].rect = last.new_rect
              /\ last.calls[i].cmd = SW_RESTORE
        /\ CallsOf("SetWindowPos") = {} /\ CallsOf("ShowWindow") = {}
        /\ win.normal = last.new_rect
        /\ CenteredWithin(win.normal, monitors[last.target].work_area)
        /\ win.state = "Normal"
        /\ win.rect = win.normal

\* C6 witness: a minimized window off every monitor was moved with
\* maximize = false and the call succeeded.
C6_Witness ==
    /\ MinimizedMoveOk
    /\ last.before.state = "Minimized"
    /\ ~is_window_on_any_monitor(last.before.normal, monitors)
    /\ win.normal # last.before.normal

\* C7 as claimed: a failed call is the last call issued and makes the
\* operation return an error; Ok is returned only if every call succeeded.
C7_Original ==
    last.op = "move_window" =>
        /\ \A i \in 1..Len(last.calls) :
              ~last.calls[i].ok => (i = Len(last.calls) /\ last.result # Ok)
        /\ last.result = Ok => AllCallsOk

\* the error that names a failed step
ErrorOf(c) ==
    IF c.call = "GetWindowPlacement" THEN {"Failed to get window placement"}
    ELSE IF c.call = "SetWindowPlacement"
         THEN {"Failed to restore window", "Failed to set window placement"}
    ELSE IF c.call = "SetWindowPos" THEN {"Failed to move window"}
    ELSE {}

\* C7 amended: a failed placement read, placement write or move/resize is the
\* last call issued and the operation returns the error that names that step;
\* the operation returns Ok exactly when each of these calls it issued
\* succeeded.  A failed maximize or focus request is discarded: the remaining
\* calls are still issued and Ok is returned.
C7_ReportedFailuresAbort ==
    last.op = "move_window" =>
        /\ \A i \in 1..Len(last.calls) :
              (last.calls[i].call \in Reported /\ ~last.calls[i].ok) =>
                  (i = Len(last.calls) /\ last.result \in ErrorOf(last.calls[i]))
        /\ last.result = Ok <=>
              \A i \in 1..Len(last.calls) :
                  last.calls[i].call \in Reported => last.calls[i].ok

\* C7 witness: the maximize command failed, the focus request was issued
\* after it, and the move returned Ok.
C7_Witness ==
    /\ last.op = "move_window"
    /\ last.result = Ok
    /\ \E i, j \in 1..Len(last.calls) :
          /\ i < j
          /\ last.calls[i].call = "ShowWindow" /\ ~last.calls[i].ok
          /\ last.calls[j].call = "SetForegroundWindow"

\* the monitor index the center/overlap rule gives for a rectangle, the first
\* monitor when the rule gives none
RuleIndex(r) ==
    LET byCenter == {i \in Idx : CenterWithin(r, monitors[i].bounds)}
        hit == {i \in Idx : StrictOverlap(r, monitors[i].bounds)}
        most == {i \in hit : \A j \in hit :
                    Area(r, monitors[j].bounds) <= Area(r, monitors[i].bounds)}
    IN  IF byCenter # {} THEN CHOOSE i \in byCenter : \A j \in byCenter : i <= j
        ELSE IF most # {} THEN CHOOSE i \in most : \A j \in most : j <= i
        ELSE 1

\* C8: with N >= 2 monitors, a move_to_next_monitor that has read the live
\* rectangle calls move_window with source = the monitor i the center/overlap
\* rule gives for that rectangle (the first monitor when it gives none),
\* target = the monitor after i, wrapping around, and maximize = false.
C8_NextMonitorCycles ==
    (/\ last.op = "move_to_next_monitor"
     /\ Len(monitors) >= 2
     /\ last.calls[1].ok) =>
        LET i == RuleIndex(last.before.rect)
        IN  /\ last.moved
            /\ last.source = i
            /\ last.target = IF i = Len(monitors) THEN 1 ELSE i + 1
            /\ ~last.maximize

\* C8 witness: with three monitors the window was on the last one and the
\* call targeted the first.
C8_Witness ==
    /\ last.op = "move_to_next_monitor"
    /\ Len(monitors) = 3
    /\ last.moved
    /\ CenterWithin(last.before.rect, monitors[3].bounds)
    /\ last.source = 3 /\ last.target = 1

\* C9: with exactly one monitor move_to_next_monitor returns Ok, issues no
\* OS call and leaves the window as it was, for a live and for a stale handle.
C9_SingleMonitorNoOp ==
    (last.op = "move_to_next_monitor" /\ Len(monitors) = 1) =>
        /\ last.result = Ok
        /\ last.calls = <<>>
        /\ win = last.before

\* C9 witness: the call was made with one monitor and a stale handle.
C9_Witness ==
    /\ last.op = "move_to_next_monitor"
    /\ Len(monitors) = 1
    /\ ~win.valid
    /\ last.result = Ok

\* C10 as claimed: with an empty monitor list move_to_next_monitor changes
\* nothing and returns Ok.
C10_Original ==
    (last.op = "move_to_next_monitor" /\ Len(monitors) = 0) =>
        /\ last.result = Ok
        /\ last.calls = <<>>
        /\ win = last.before

\* C10 amended: with an empty monitor list move_to_next_monitor issues no OS
\* call and changes nothing, but returns the error "No monitors available";
\* only a list of exactly one monitor gives the no-op success.
C10_EmptyListIsError ==
    (last.op = "move_to_next_monitor" /\ Len(monitors) = 0) =>
        /\ last.result = "No monitors available"
        /\ last.calls = <<>>
        /\ win = last.before

\* C10 witness: the call was made with an empty monitor list on a live window.
C10_Witness ==
    /\ last.op = "move_to_next_monitor"
    /\ Len(monitors) = 0
    /\ win.valid
    /\ last.result # Ok

\* the case of C11: center_window returned Ok on a window in Normal state,
\* the state the operation is written for
CenterOk ==
    /\ last.op = "center_window" /\ last.result = Ok
    /\ last.before.state = "Normal"

\* C11: after a successful center_window the window has the width and
\* height its live rectangle had before the call, and its rectangle lies
\* within the work area of the monitor it was determined to be on, for
\* every window size, windows larger than the work area included.
C11_CenteredWithinWorkArea ==
    CenterOk =>
        LET wa == monitors[last.target].work_area
        IN  /\ win.rect.right - win.rect.left
                  = last.before.rect.right - last.before.rect.left
            /\ win.rect.bottom - win.rect.top
                  = last.before.rect.bottom - last.before.rect.top
            /\ win.rect.left >= wa.left /\ win.rect.top >= wa.top
            /\ win.rect.right <= wa.right /\ win.rect.bottom <= wa.bottom

\* the integer part of v * n / d, for v >= 0 and n, d > 0
Truncated(v, n, d) == CHOOSE k \in 0..(v * n) : k * d <= v * n /\ v * n < (k + 1) * d

\* the size C17 gives before clamping: the restore size, multiplied when a
\* source monitor is given by the smaller of the two work-area ratios
ScaledBeforeClamp ==
    LET w0 == last.before.normal.right - last.before.normal.left
        h0 == last.before.normal.bottom - last.before.normal.top
        tw == monitors[last.target].work_area.right - monitors[last.target].work_area.left
        th == monitors[last.target].work_area.bottom - monitors[last.target].work_area.top
    IN  IF last.source = 0 THEN <<w0, h0>>
        ELSE LET sw == monitors[last.source].work_area.right
                          - monitors[last.source].work_area.left
                 sh == monitors[last.source].work_area.bottom
                          - monitors[last.source].work_area.top
             IN  IF tw * sh <= th * sw
                 THEN <<Truncated(w0, tw, sw), Truncated(h0, tw, sw)>>
                 ELSE <<Truncated(w0, th, sh), Truncated(h0, th, sh)>>

\* a move that got as far as computing the target rectangle
Computed == Moved /\ last.new_rect # NoRect

C18_TopLeftFormula ==
    Computed =>
        LET wa == monitors[last.target].work_area
            w == last.new_rect.right - last.new_rect.left
            h == last.new_rect.bottom - last.new_rect.top
            center_x == wa.left + TruncDiv(wa.right - wa.left, 2)
            center_y == wa.top + TruncDiv(wa.bottom - wa.top, 2)
        IN  /\ last.new_rect.left
                  = Max(wa.left, Min(center_x - TruncDiv(w, 2), wa.right - w))
            /\ last.new_rect.top
                  = Max(wa.top, Min(center_y - TruncDiv(h, 2), wa.bottom - h))
            /\ \A i \in CallsOf("SetWindowPlacement") \cup CallsOf("SetWindowPos") :
                  last.calls[i].rect = last.new_rect
            /\ wa.left <= last.new_rect.left /\ last.new_rect.right <= wa.right
            /\ wa.top <= last.new_rect.top /\ last.new_rect.bottom <= wa.bottom

\* C18 witness: a window in Normal state was moved to the work area of
\* another monitor whose top edge is below the top of its bounds; the window
\* sits at the target rectangle, which rounding leaves one unit off center.
C18_Witness ==
    /\ Computed /\ last.result = Ok /\ ~last.maximize
    /\ last.before.state = "Normal"
    /\ win.rect = last.new_rect
    /\ win.rect # last.before.rect
    /\ monitors[last.target].work_area.top > monitors[last.target].bounds.top
    /\ (win.rect.left - monitors[last.target].work_area.left)
          - (monitors[last.target].work_area.right - win.rect.right) = 1

\* the calls of a move that act on the window's geometry or show state, in
\* the order they were issued
GeometryCalls ==
    SelectSeq(last.calls,
              LAMBDA c : c.call \in {"SetWindowPlacement", "SetWindowPos", "ShowWindow"})

\* C19: when a move finds the window maximized, the calls that act on it
\* are, in this order: a placement write with the "restore" show-command
\* and the target rectangle; then, only if that write succeeded (the window
\* is restored), the move/resize to the target rectangle; then, only if
\* the move/resize succeeded and maximize is requested, the maximize
\* command.
C19_MaximizedCallOrder ==
    (Computed /\ last.was_maximized) =>
        LET g == GeometryCalls
        IN  /\ Len(g) \in 1..3
            /\ g[1].call = "SetWindowPlacement" /\ g[1].cmd = SW_RESTORE
            /\ g[1].rect = last.new_rect
            /\ Len(g) >= 2 <=> g[1].ok
            /\ Len(g) >= 2 => (g[2].call = "SetWindowPos" /\ g[2].rect = last.new_rect)
            /\ Len(g) = 3 <=> (g[1].ok /\ g[2].ok /\ last.maximize)
            /\ Len(g) = 3 => (g[3].call = "ShowWindow" /\ g[3].cmd = SW_MAXIMIZE)

\* C19 witness: a maximized window was restored, moved and maximized again,
\* the three calls succeeding, and is maximized on the target monitor.
C19_Witness ==
    /\ Computed /\ last.was_maximized /\ last.maximize
    /\ Len(GeometryCalls) = 3
    /\ \A i \in 1..3 : GeometryCalls[i].ok
    /\ last.before.rect # monitors[last.target].work_area
    /\ win.state = "Maximized" /\ win.rect = monitors[last.target].work_area
    /\ win.normal = last.new_rect

\* C20: a move that returns an error stops at the call that failed: every
\* call before it succeeded and none follows it.  What the earlier calls
\* did stays: when the placement write of a maximized window succeeded and
\* the move/resize failed, the window is left restored at the new restore
\* rectangle; when no write succeeded the window is as it was.
C20_NoRollback ==
    (Moved /\ last.result # Ok) =>
        LET n == Len(last.calls)
        IN  /\ ~last.calls[n].ok
            /\ \A i \in 1..(n - 1) : last.calls[i].ok
            /\ IF \E i \in CallsOf("SetWindowPlacement") : last.calls[i].ok
               THEN /\ last.calls[n].call = "SetWindowPos"
                    /\ Cardinality(CallsOf("SetWindowPlacement")) = 1
                    /\ win.state = "Normal"
                    /\ win.normal = last.new_rect /\ win.rect = last.new_rect
               ELSE win = last.before

\* C20 witness: a maximized window was restored by the placement write, the
\* move/resize failed, and the window is left in Normal state at a restore
\* rectangle it did not have before.
C20_Witness ==
    /\ Moved /\ last.was_maximized
    /\ last.result = "Failed to move window"
    /\ last.before.state = "Maximized"
    /\ win.state = "Normal"
    /\ win.normal = last.new_rect /\ win.normal # last.before.normal

(***************************************************************************)
(* Properties of the enumerations (SpecEnum).                              *)
(***************************************************************************)
\* the calls of enumerate_windows, of enumerate_monitors, that have returned
WindowResults == {c \in Callers : scans[c].kind = "windows" /\ scans[c].done}

MonitorResults == {c \in Callers : scans[c].kind = "monitors" /\ scans[c].done}

\* a title with its upper-case letters replaced by the lower-case ones
LowerTitle(t) == to_lowercase(t)

\* a is not after b in lexicographic order: a is a prefix of b, or at the
\* first position where they differ a has the smaller character
LexLeq(a, b) ==
    \E k \in 0..Len(a) :
        /\ k <= Len(b)
        /\ SubSeq(a, 1, k) = SubSeq(b, 1, k)
        /\ \/ k = Len(a)
           \/ /\ k < Len(b)
              /\ CodePoints[SubSeq(a, k + 1, k + 1)] < CodePoints[SubSeq(b, k + 1, k + 1)]

\* C12: in the list enumerate_windows returns every off-screen window
\* precedes every on-screen window; within each group the windows are in
\* case-insensitive lexicographic title order; windows with the same flag
\* and the same lower-cased title are in OS enumeration order.
C12_OffscreenFirstThenTitle ==
    \A c \in WindowResults :
        \A i, j \in 1..Len(scans[c].result) :
            i < j =>
                LET a == scans[c].result[i]
                    b == scans[c].result[j]
                IN  /\ b.is_offscreen => a.is_offscreen
                    /\ a.is_offscreen = b.is_offscreen =>
                          LexLeq(LowerTitle(a.title), LowerTitle(b.title))
                    /\ (/\ a.is_offscreen = b.is_offscreen
                        /\ LowerTitle(a.title) = LowerTitle(b.title)) => a.hwnd < b.hwnd

\* C12 witness: the OS enumerated "ant", "Ant" (both on a monitor) and then
\* an off-screen window; the returned list has the off-screen window first
\* and keeps "ant" before "Ant".
C12_Witness ==
    \E c \in WindowResults :
        /\ Len(scans[c].result) = 3
        /\ scans[c].result[1].is_offscreen /\ scans[c].result[1].hwnd = 3
        /\ scans[c].result[2].title = "ant" /\ scans[c].result[2].hwnd = 1
        /\ scans[c].result[3].title = "Ant" /\ scans[c].result[3].hwnd = 2
        /\ ~scans[c].result[3].is_offscreen

\* C13 as claimed: no returned window has a title that is, or that contains
\* in any letter case, an entry of the SKIP_TITLES list.
C13_Original ==
    \A c \in WindowResults :
        \A i \in 1..Len(scans[c].result) :
            \A e \in SKIP_TITLES :
                /\ scans[c].result[i].title # e
                /\ ~contains(LowerTitle(scans[c].result[i].title), LowerTitle(e))

\* the titles the filter rejects
Skipped(t) ==
    \/ \E e \in SKIP_TITLES : t = e
    \/ \E i \in 1..Len(t) :
          \/ i + 15 <= Len(t) /\ LowerTitle(SubSeq(t, i, i + 15)) = "dwm notification"
          \/ i + 21 <= Len(t) /\ LowerTitle(SubSeq(t, i, i + 21)) = "desktop window manager"

\* C13 amended: a window is rejected whenever its title is an entry of
\* SKIP_TITLES letter for letter, or contains "dwm notification" or "desktop
\* window manager" in any letter case, so no returned window has such a
\* title; a title that only contains an entry, or differs from it in
\* letter case, is not rejected on that account: the windows returned are
\* exactly those with a non-empty title that is not rejected and a
\* rectangle that is not dropped.
C13_SkipExactOrSystemSubstring ==
    \A c \in WindowResults :
        \A k \in 1..Len(desktop) :
            (\E i \in 1..Len(scans[c].result) : scans[c].result[i].hwnd = desktop[k].hwnd)
                <=> (/\ ~Skipped(desktop[k].title)
                     /\ Len(desktop[k].title) > 0
                     /\ \/ desktop[k].win.state = "Minimized"
                        \/ /\ desktop[k].win.rect.left < desktop[k].win.rect.right
                           /\ desktop[k].win.rect.top < desktop[k].win.rect.bottom)

\* C13 witness: of the windows "Settings", "settings" and "The DWM
\* Notification" the call returned "settings" and nothing else.
C13_Witness ==
    \E c \in WindowResults :
        /\ {desktop[k].title : k \in 1..Len(desktop)}
              = {"Settings", "settings", "The DWM Notification"}
        /\ Len(scans[c].result) = 1
        /\ scans[c].result[1].title = "settings"

\* the displays whose detail query succeeds
Queried == {i \in 1..Len(displays) : ~displays[i].queryFails}

\* the k-th of them in OS enumeration order
KthQueried(k) ==
    CHOOSE i \in Queried : Cardinality({j \in Queried : j < i}) = k - 1

\* C14: enumerate_monitors returns, in OS enumeration order, exactly the
\* monitors whose detail query succeeded; each has display index equal to
\* its 0-based position in the OS enumeration and the name "Display
\* {index+1}", followed by " (Primary)" if and only if it is primary.
C14_MonitorsQueriedInOrder ==
    \A c \in MonitorResults :
        /\ Len(scans[c].result) = Cardinality(Queried)
        /\ \A k \in 1..Len(scans[c].result) :
              LET m == scans[c].result[k]
                  i == KthQueried(k)
              IN  /\ m.bounds = displays[i].bounds
                  /\ m.work_area = displays[i].work_area
                  /\ m.is_primary = displays[i].is_primary
                  /\ m.display_index = i - 1
                  /\ m.name = "Display " \o SubSeq(Digits, i + 1, i + 1)
                                \o (IF displays[i].is_primary THEN " (Primary)" ELSE "")

\* C14 witness: of three monitors the query of the second failed; the list
\* has the first and the third, the third as "Display 3 (Primary)" with
\* display index 2.
C14_Witness ==
    \E c \in MonitorResults :
        /\ Len(displays) = 3 /\ Queried = {1, 3}
        /\ Len(scans[c].result) = 2
        /\ scans[c].result[2].display_index = 2
        /\ scans[c].result[2].name = "Display 3 (Primary)"

\* what the callbacks of one call collect from the first n windows
RECURSIVE Collected(_)
Collected(n) ==
    IF n = 0 THEN <<>>
    ELSE IF window_info(desktop[n]).listed
         THEN Append(Collected(n - 1), window_info(desktop[n]))
    ELSE Collected(n - 1)

\* what enumerate_windows, enumerate_monitors returns when it runs alone
AloneWindows == sort_by(update_offscreen(Collected(Len(desktop)), monitors), 1, <<>>)

AloneMonitors ==
    filter_map_monitors([i \in 1..Len(displays) |-> <<displays[i].handle, i - 1>>],
                        displays, 1)

\* C15: whatever the interleaving of the callbacks of two concurrent
\* enumeration calls, each call has collected exactly the items its own
\* callbacks met, and returns the list it would return running alone.
C15_CallsAreIndependent ==
    \A c \in Callers :
        /\ (scans[c].kind = "windows" /\ ~scans[c].done)
              => scans[c].acc = Collected(scans[c].pos)
        /\ (scans[c].kind = "monitors" /\ ~scans[c].done)
              => scans[c].acc = [i \in 1..scans[c].pos |-> <<displays[i].handle, i - 1>>]
        /\ c \in WindowResults => scans[c].result = AloneWindows
        /\ c \in MonitorResults => scans[c].result = AloneMonitors

\* C15 witness: one call of enumerate_windows has returned two windows or
\* more while the callbacks of a second call of enumerate_windows, begun
\* meanwhile, are part of the way through the same desktop.
C15_Witness ==
    \E c, d \in Callers :
        /\ c \in WindowResults /\ Len(scans[c].result) >= 2
        /\ scans[d].kind = "windows" /\ ~scans[d].done
        /\ scans[d].pos >= 1 /\ scans[d].pos < Len(desktop)
        /\ Len(scans[d].acc) >= 1

\* the case of C21: a move with a source monitor of a window whose restore
\* rectangle is no wider and no higher than the source work area
FitsSource ==
    /\ Computed /\ last.source # 0
    /\ last.before.normal.right - last.before.normal.left
          <= monitors[last.source].work_area.right - monitors[last.source].work_area.left
    /\ last.before.normal.bottom - last.before.normal.top
          <= monitors[last.source].work_area.bottom - monitors[last.source].work_area.top

\* C21: when a source monitor is given (work areas of positive size) and
\* the restore width and height do not exceed those of the source work
\* area, the scaled width and height do not exceed those of the target
\* work area, and the clamp leaves them as they are: the target rectangle
\* has the scaled size.
C21_ScaledFitsTarget ==
    FitsSource =>
        LET tgt == monitors[last.target]
            sz == scaled_size(last.before.normal.right - last.before.normal.left,
                              last.before.normal.bottom - last.before.normal.top,
                              tgt, monitors[last.source])
        IN  /\ sz[1] <= tgt.work_area.right - tgt.work_area.left
            /\ sz[2] <= tgt.work_area.bottom - tgt.work_area.top
            /\ last.new_rect.right - last.new_rect.left = sz[1]
            /\ last.new_rect.bottom - last.new_rect.top = sz[2]
            /\ sz = ScaledBeforeClamp

\* C21 witness: a window as wide as its source work area was moved to a
\* narrower one and came out scaled down, no wider than the target work area.
C21_Witness ==
    /\ FitsSource /\ last.result = Ok
    /\ last.before.normal.right - last.before.normal.left
          = monitors[last.source].work_area.right - monitors[last.source].work_area.left
    /\ monitors[last.target].work_area.right - monitors[last.target].work_area.left
          < monitors[last.source].work_area.right - monitors[last.source].work_area.left
    /\ win.normal.right - win.normal.left
          < last.before.normal.right - last.before.normal.left
    /\ win.normal.right - win.normal.left
          <= monitors[last.target].work_area.right - monitors[last.target].work_area.left

\* the center/overlap rule assigns no monitor to the rectangle r
RuleGivesNone(r) ==
    /\ \A i \in Idx : ~CenterWithin(r, monitors[i].bounds)
    /\ \A i \in Idx : ~StrictOverlap(r, monitors[i].bounds)

\* the primary monitors of the list
Primaries == {i \in Idx : monitors[i].is_primary}

\* C22: a center_window that has read the live rectangle takes the monitor
\* the center/overlap rule gives for it; when the rule gives none, the
\* first primary monitor of the list; when there is no primary monitor
\* either (the empty list included) it returns the error "No monitor found"
\* and issues no move.  The enumeration uses no fallback: a window whose
\* rectangle the rule assigns to no monitor is listed without a monitor.
C22_CenterFallsBackToPrimary ==
    /\ (last.op = "center_window" /\ last.calls[1].ok) =>
          IF ~RuleGivesNone(last.before.rect)
          THEN last.target = RuleIndex(last.before.rect)
          ELSE IF Primaries # {}
          THEN /\ last.target \in Primaries
               /\ \A i \in Primaries : last.target <= i
               /\ CallsOf("SetWindowPos") # {}
          ELSE /\ last.result = "No monitor found"
               /\ CallsOf("SetWindowPos") = {}
               /\ win = last.before
    /\ (win.valid /\ win.state = "Normal" /\ RuleGivesNone(win.rect)
            /\ enumerate_windows(win, monitors, FALSE).listed)
          => enumerate_windows(win, monitors, FALSE).monitor_name = None

\* C22 witness: a window off every monitor was centered on the primary
\* monitor, which is the second of the list, while a fresh enumeration
\* would have listed it without a monitor before the call.
C22_Witness ==
    /\ last.op = "center_window" /\ last.result = Ok
    /\ last.before.state = "Normal"
    /\ RuleGivesNone(last.before.rect)
    /\ enumerate_windows(last.before, monitors, FALSE).monitor_name = None
    /\ last.target = 2 /\ monitors[2].is_primary
    /\ CenterWithin(win.rect, monitors[2].bounds)

\* the calls that change a window's placement, position, size, show state
\* or focus
Changing == {"SetWindowPlacement", "SetWindowPos", "ShowWindow", "SetForegroundWindow"}

\* the placement read of the call failed
PlacementReadFailed ==
    /\ Moved
    /\ \E i \in CallsOf("GetWindowPlacement") : ~last.calls[i].ok

\* C28: when the placement read at the start of a move fails, the move
\* returns the error "Failed to get window placement", has issued no call
\* that changes a window's placement, position, size, show state or focus,
\* and leaves the window as it was.
C28_PlacementReadFailure ==
    PlacementReadFailed =>
        /\ last.result = "Failed to get window placement"
        /\ \A i \in 1..Len(last.calls) : last.calls[i].call \notin Changing
        /\ win = last.before

\* C28 witness: the placement read failed on a live, maximized window, with
\* maximize and focus requested, and the window is still maximized.
C28_Witness ==
    /\ PlacementReadFailed
    /\ last.op = "move_window" /\ last.maximize /\ last.auto_focus
    /\ win.valid /\ win.state = "Maximized"
    /\ last.result # Ok

\* the calls of lines 510-531 were issued: the placement write with the
\* "restore" show-command, followed by the move/resize or by the error
\* of line 514
MaximizedBranchRan ==
    LET g == GeometryCalls
    IN  /\ Len(g) >= 1
        /\ g[1].call = "SetWindowPlacement" /\ g[1].cmd = SW_RESTORE
        /\ IF g[1].ok THEN Len(g) >= 2 /\ g[2].call = "SetWindowPos"
                      ELSE last.result = "Failed to restore window"

\* the calls of lines 532-537 were issued: the placement write alone, with
\* the show-command of line 534, and on its failure the error of line 537
MinimizedBranchRan ==
    LET g == GeometryCalls
    IN  /\ Len(g) = 1
        /\ g[1].call = "SetWindowPlacement"
        /\ g[1].cmd = IF last.maximize THEN SW_MAXIMIZE ELSE SW_RESTORE
        /\ IF g[1].ok THEN last.result = Ok
                      ELSE last.result = "Failed to set window placement"

\* the calls of lines 538-554 were issued: the move/resize first and no
\* placement write
NormalBranchRan ==
    LET g == GeometryCalls
    IN  /\ Len(g) >= 1
        /\ g[1].call = "SetWindowPos"
        /\ CallsOf("SetWindowPlacement") = {}

\* C29: a move whose placement read succeeded executes exactly one of the
\* three branches, chosen from the two flags read at its start: the
\* Maximized branch when the maximized flag is true, whatever the minimized
\* flag is; the Minimized branch (placement write only, no move/resize)
\* when the minimized flag is true and the maximized flag false; the Normal
\* branch when both are false.
C29_OneBranchByFlags ==
    Computed =>
        /\ last.was_maximized =>
              MaximizedBranchRan /\ ~MinimizedBranchRan /\ ~NormalBranchRan
        /\ (last.was_minimized /\ ~last.was_maximized) =>
              MinimizedBranchRan /\ ~MaximizedBranchRan /\ ~NormalBranchRan
        /\ (~last.was_minimized /\ ~last.was_maximized) =>
              NormalBranchRan /\ ~MaximizedBranchRan /\ ~MinimizedBranchRan

\* C29 witness: both flags were read true, the Maximized branch ran with
\* its placement write and its move/resize succeeding, and the window is
\* in Normal state at the target rectangle.
C29_Witness ==
    /\ Computed /\ last.was_minimized /\ last.was_maximized
    /\ MaximizedBranchRan /\ last.result = Ok /\ ~last.maximize
    /\ Cardinality(CallsOf("SetWindowPos")) = 1
    /\ win.state = "Normal" /\ win.rect = last.new_rect

\* the monitor whose bounds hold the center of r (0: none)
CenterIndex(r) ==
    IF \E i \in Idx : CenterWithin(r, monitors[i].bounds)
    THEN CHOOSE i \in Idx : CenterWithin(r, monitors[i].bounds)
    ELSE 0

\* the results of k successive calls of move_to_next_monitor on w, none of
\* whose Win32 calls fails
RECURSIVE Successive(_, _)
SuccessiveFrom(r, k) == <<r>> \o Successive(r.win, k - 1)
Successive(w, k) ==
    IF k = 0 THEN <<>>
    ELSE SuccessiveFrom(move_to_next_monitor(w, monitors, {}, 1), k)

\* a successful call of move_to_next_monitor found a Normal window whose
\* center was on one of at least two monitors
NextMonitorCase ==
    /\ last.op = "move_to_next_monitor" /\ last.moved /\ last.result = Ok
    /\ Len(monitors) >= 2
    /\ last.before.state = "Normal"
    /\ CenterIndex(last.before.rect) # 0

\* the k-th of the successive calls succeeded, targeted monitor t and left
\* the window in Normal state with its center within t's bounds
PlacedOn(c, t) ==
    /\ c.rec.result = Ok /\ c.rec.target = t
    /\ c.win.state = "Normal"
    /\ CenterWithin(c.win.rect, monitors[t].bounds)

\* C30: with N >= 2 monitors and a Normal window whose center is on monitor
\* i, N successive successful calls of move_to_next_monitor place the window
\* on monitors i+1, i+2, ... (mod N) in turn, every monitor exactly once,
\* the last of them monitor i; after each call the window's center lies
\* within the bounds of that call's target.  The first of the N calls is
\* the call just made.
C30_NextMonitorCycle ==
    NextMonitorCase =>
        LET n == Len(monitors)
            i == CenterIndex(last.before.rect)
            calls == Successive(last.before, n)
        IN  /\ calls[1].win = win /\ calls[1].rec.target = last.target
            /\ \A k \in 1..n : PlacedOn(calls[k], ((i + k - 1) % n) + 1)
            /\ {calls[k].rec.target : k \in 1..n} = 1..n
            /\ calls[n].rec.target = i

\* C30 witness: on three monitors a call moved a Normal window from the
\* last monitor to the first, scaled down, and the window's center is
\* within the first monitor's bounds.
C30_Witness ==
    /\ NextMonitorCase
    /\ Len(monitors) = 3 /\ CenterIndex(last.before.rect) = 3 /\ last.target = 1
    /\ win.state = "Normal" /\ win.rect # last.before.rect
    /\ CenterWithin(win.rect, monitors[1].bounds)

(***************************************************************************)
(* hotkeys.rs: HotkeyManager.  A HotKey is its modifier flags and its key  *)
(* code; its id is computed from the two and stands for them here.  The    *)
(* global-hotkey crate is modelled by os_register, after RegisterHotKey,   *)
(* which GlobalHotKeyManager::register calls: a combination that is        *)
(* registered already cannot be registered again, and nothing in           *)
(* hotkeys.rs ever unregisters one.                                        *)
(***************************************************************************)
\* the order in which register_from_settings goes through the actions
ActionOrder ==
    <<"LassoWindow", "RefreshWindows", "MoveToPrimary",
      "MoveAllToPrimary", "CenterWindow", "NextMonitor">>

HotkeyActions == {ActionOrder[i] : i \in 1..Len(ActionOrder)}

HotkeyBinding(modifiers, key, enabled) ==
    [modifiers |-> modifiers, key |-> key, enabled |-> enabled]

\* char::to_uppercase on ASCII
UpperCase ==
    [c \in {char_at(Lower, i) : i \in 1..26} |->
        char_at(Upper, CHOOSE i \in 1..26 : char_at(Lower, i) = c)]

to_uppercase_char(c) == IF c \in DOMAIN UpperCase THEN UpperCase[c] ELSE c

\* str::to_uppercase
RECURSIVE to_uppercase(_)
to_uppercase(s) ==
    IF Len(s) = 0 THEN ""
    ELSE to_uppercase_char(char_at(s, 1)) \o to_uppercase(SubSeq(s, 2, Len(s)))

\* the strings key_to_code has an arm for
KnownKeys ==
    {char_at(Upper, i) : i \in 1..26} \cup {char_at(Digits, i) : i \in 1..10}
    \cup {"F1", "F2", "F3", "F4", "F5", "F6", "F7", "F8", "F9", "F10", "F11", "F12",
          "SPACE", "ENTER", "RETURN", "TAB", "ESCAPE", "ESC", "HOME", "END",
          "PAGEUP", "PAGEDOWN", "INSERT", "DELETE", "UP", "DOWN", "LEFT", "RIGHT"}

\* lines 136-202: the key code, named by the first string of its arm
key_to_code(key) ==
    IF to_uppercase(key) \notin KnownKeys THEN None
    ELSE IF to_uppercase(key) = "RETURN" THEN "ENTER"
    ELSE IF to_uppercase(key) = "ESC" THEN "ESCAPE"
    ELSE to_uppercase(key)

\* lines 120-126: the flag of one modifier string
modifier_flag(m) ==
    IF to_lowercase(m) \in {"ctrl", "control"} THEN {"CONTROL"}
    ELSE IF to_lowercase(m) = "alt" THEN {"ALT"}
    ELSE IF to_lowercase(m) = "shift" THEN {"SHIFT"}
    ELSE IF to_lowercase(m) \in {"win", "super", "meta"} THEN {"META"}
    ELSE {}

\* lines 116-134; None and the empty flags both make a HotKey without
\* modifiers
modifiers_to_flags(modifiers) ==
    UNION {modifier_flag(modifiers[i]) : i \in 1..Len(modifiers)}

NoHotkey == [mods |-> {}, code |-> None]

\* lines 109-114
binding_to_hotkey(binding) ==
    IF key_to_code(binding.key) = None THEN NoHotkey
    ELSE [mods |-> modifiers_to_flags(binding.modifiers),
          code |-> key_to_code(binding.key)]

\* GlobalHotKeyManager::register: held are the combinations the manager has
\* registered with the system
os_register(held, hotkey) ==
    [ok |-> hotkey \notin held, held |-> held \cup {hotkey}]

\* HashMap::insert on the map of registered ids
insert(registered, id, action) ==
    {e \in registered : e.id # id} \cup {[id |-> id, action |-> action]}

HotkeyManager(registered, held) == [registered |-> registered, held |-> held]

\* lines 90-94: only the tracking map is cleared
unregister_all(m) == HotkeyManager({}, m.held)

\* one of the six blocks of lines 29-86
register_binding(m, binding, action, hotkey) ==
    IF ~binding.enabled THEN m
    ELSE IF hotkey = NoHotkey THEN m
    ELSE IF os_register(m.held, hotkey).ok
    THEN HotkeyManager(insert(m.registered, hotkey, action),
                       os_register(m.held, hotkey).held)
    ELSE m

RECURSIVE register_all(_, _, _)
register_all(m, settings, i) ==
    IF i > Len(ActionOrder) THEN m
    ELSE register_all(
            register_binding(m, settings[ActionOrder[i]], ActionOrder[i],
                             binding_to_hotkey(settings[ActionOrder[i]])),
            settings, i + 1)

\* lines 25-87
register_from_settings(m, settings) == register_all(unregister_all(m), settings, 1)

\* lines 97-99
get_action(m, id) ==
    IF \E e \in m.registered : e.id = id
    THEN (CHOOSE e \in m.registered : e.id = id).action
    ELSE None

(***************************************************************************)
(* SpecKeys: the hotkey settings and the manager, from App::new on,        *)
(* under UpdateHotkey and ToggleHotkey messages and key presses.           *)
(***************************************************************************)
\* types.rs lines 141-164: HotkeySettings::default()
DefaultHotkeys ==
    [a \in HotkeyActions |->
        HotkeyBinding(<<"Ctrl", "Alt">>,
                      CASE a = "LassoWindow" -> "L"
                        [] a = "RefreshWindows" -> "R"
                        [] a = "MoveToPrimary" -> "P"
                        [] a = "MoveAllToPrimary" -> "A"
                        [] a = "CenterWindow" -> "C"
                        [] a = "NextMonitor" -> "N",
                      TRUE)]

\* the settings App::new loads: the defaults, or a settings file written by
\* hand or by an earlier run
StartSettings ==
    { DefaultHotkeys,
      [DefaultHotkeys EXCEPT !["LassoWindow"] = HotkeyBinding(<<"control", "ALT">>, "l", TRUE)],
      [DefaultHotkeys EXCEPT !["RefreshWindows"].enabled = FALSE],
      [DefaultHotkeys EXCEPT !["NextMonitor"] = HotkeyBinding(<<"Ctrl">>, ";", TRUE)] }

\* the bindings the KeyPressed handler (app.rs lines 360-382) builds:
\* modifier names of modifiers_to_strings, a key of key_to_string, enabled
RecordedBindings ==
    { HotkeyBinding(<<"Ctrl", "Alt">>, "K", TRUE),
      HotkeyBinding(<<"Ctrl", "Alt">>, "L", TRUE),
      HotkeyBinding(<<"Ctrl", "Shift">>, "Space", TRUE),
      HotkeyBinding(<<"Alt">>, ";", TRUE) }

KeyState(settings, manager, changes, pressed, dispatched) ==
    [settings |-> settings, manager |-> manager, changes |-> changes,
     pressed |-> pressed, dispatched |-> dispatched]

\* app.rs lines 107-111: the manager is created and the loaded settings are
\* registered
InitKeys ==
    /\ monitors = <<>>
    /\ win = Window(FALSE, "Destroyed", Rect(0, 0, 0, 0), Rect(0, 0, 0, 0))
    /\ snap = NoWindow
    /\ last = NoCall
    /\ desktop = <<>>
    /\ displays = <<>>
    /\ scans = NoScans
    /\ \E settings \in StartSettings :
          keys = KeyState(settings,
                          register_from_settings(HotkeyManager({}, {}), settings),
                          0, NoHotkey, None)
    /\ app = NoApp
    /\ tasks = NoTasks

\* app.rs lines 301-328: Message::UpdateHotkey
UpdateHotkey(action, binding) ==
    /\ keys.changes < MaxChanges
    /\ \E settings \in {[keys.settings EXCEPT ![action] = binding]} :
          keys' = KeyState(settings,
                           register_from_settings(keys.manager, settings),
                           keys.changes + 1, NoHotkey, None)
    /\ UNCHANGED <<monitors, win, snap, last, desktop, displays, scans, app, tasks>>

\* app.rs lines 330-358: Message::ToggleHotkey
ToggleHotkey(action, enabled) ==
    /\ keys.changes < MaxChanges
    /\ \E settings \in {[keys.settings EXCEPT ![action].enabled = enabled]} :
          keys' = KeyState(settings,
                           register_from_settings(keys.manager, settings),
                           keys.changes + 1, NoHotkey, None)
    /\ UNCHANGED <<monitors, win, snap, last, desktop, displays, scans, app, tasks>>

\* the combinations the user presses: those of the current bindings
Pressable ==
    {binding_to_hotkey(keys.settings[a]) : a \in HotkeyActions} \ {NoHotkey}

\* app.rs lines 521-548, hotkeys.rs lines 204-212: the system reports a
\* press of a combination the manager holds, and PollEvents looks its id up
PollEvents ==
    /\ \E hotkey \in Pressable :
          /\ hotkey \in keys.manager.held
          /\ keys' = [keys EXCEPT !.pressed = hotkey,
                                  !.dispatched = get_action(keys.manager, hotkey)]
    /\ keys' # keys
    /\ UNCHANGED <<monitors, win, snap, last, desktop, displays, scans, app, tasks>>

NextKeys ==
    \/ \E a \in HotkeyActions, b \in RecordedBindings : UpdateHotkey(a, b)
    \/ \E a \in HotkeyActions, e \in BOOLEAN : ToggleHotkey(a, e)
    \/ PollEvents

SpecKeys == InitKeys /\ [][NextKeys]_vars

(***************************************************************************)
(* Properties of the hotkey manager (SpecKeys).                            *)
(***************************************************************************)
\* the key of the action's binding has a key code
Recognised(a) == key_to_code(keys.settings[a].key) # None

\* a press of the combination bound to the action reaches PollEvents and is
\* looked up as that action
Dispatches(a) ==
    /\ Recognised(a)
    /\ binding_to_hotkey(keys.settings[a]) \in keys.manager.held
    /\ get_action(keys.manager, binding_to_hotkey(keys.settings[a])) = a

\* C25: after any sequence of register_from_settings calls, for every
\* hotkey action, a press of the combination bound to the action is
\* dispatched to that action if and only if the action's binding is
\* enabled and its key is recognised.
C25_EnabledHotkeysDispatch ==
    \A a \in HotkeyActions :
        Dispatches(a) <=> (keys.settings[a].enabled /\ Recognised(a))

(***************************************************************************)
(* app.rs: the application around the engine.  The desktop is the tracked  *)
(* window win and the monitor list enumerate_monitors would return now     *)
(* (monitors).  tasks are the running Tasks, oldest first; the message of  *)
(* a task is handled when the runtime delivers it, and the task is gone    *)
(* then.  Fields written "ghost" are not state of the program: they count  *)
(* what was started and record which task a value came from.               *)
(***************************************************************************)
\* id (ghost): the number of the repositioning call, or of the load, in
\* the order they were started
Task(kind, id, phase, op, ms, target, after, list, windows, result) ==
    [kind |-> kind, id |-> id, phase |-> phase, op |-> op, ms |-> ms,
     target |-> target, after |-> after, monitors |-> list, windows |-> windows,
     result |-> result]

\* the repositioning calls, of the first n started, that have returned
Returned(ts, n) ==
    {k \in 1..n : ~\E i \in 1..Len(ts) :
                     ts[i].kind = "move" /\ ts[i].id = k /\ ts[i].phase = "spawned"}

\* Task::perform(load_windows_and_monitors(), ..); after (ghost): the
\* repositioning calls that had returned when the task was started
spawn_load(ts, id, after) ==
    Append(ts, Task("load", id, "spawned", "", <<>>, 0, after, <<>>, <<>>, ""))

\* Task::perform(async move { <repositioning call> }, Message::WindowMoved)
spawn_move(ts, id, op, ms, target) ==
    Append(ts, Task("move", id, "spawned", op, ms, target, {}, <<>>, <<>>, ""))

\* the running tasks without the i-th, whose message is being handled
remove(ts, i) == SubSeq(ts, 1, i - 1) \o SubSeq(ts, i + 1, Len(ts))

\* the Vec<WindowInfo> of a desktop that holds the tracked window
window_list(info) == IF info.listed THEN <<info>> ELSE <<>>

\* self.windows.iter().any(|w| w.is_offscreen)
any_offscreen(windows) == \E i \in 1..Len(windows) : windows[i].is_offscreen

\* self.windows.iter().find(|w| w.is_offscreen), 1-based (0: none)
first_offscreen(windows) ==
    IF any_offscreen(windows)
    THEN CHOOSE i \in 1..Len(windows) :
            windows[i].is_offscreen /\ \A j \in 1..(i - 1) : ~windows[j].is_offscreen
    ELSE 0

\* types.rs lines 195-203: Screen; of the selected window only the handle
\* is used, and it is the tracked window's
MainScreen == [name |-> "Main"]

MonitorPicker(window) == [name |-> "MonitorPicker"]

NoCheck == [for |-> 0, after |-> {}]

\* a WindowsLoaded handler that keeps the stored monitor list
windows_loaded_windows_only(a, windows, list, from, after) ==
    [a EXCEPT !.windows = windows,
              !.windows_from = from,
              !.seen = @ \cup after,
              !.pending_recovery_check = FALSE,
              !.exited = /\ a.pending_recovery_check
                         /\ a.close_after_recovery
                         /\ any_offscreen(a.windows) /\ ~any_offscreen(windows),
              !.check = IF a.pending_recovery_check
                        THEN [for |-> a.pending_for, after |-> after] ELSE @]

\* lines 165-182: Message::WindowsLoaded.  Ghost: windows_from and
\* monitors_from, the load the lists came from; seen, the repositioning
\* calls that had returned when a load started whose lists have been stored;
\* check, the call whose pending check this message consumed.
windows_loaded(a, windows, list, from, after) ==
    [a EXCEPT !.windows = windows,
              !.monitors = list,
              !.windows_from = from,
              !.monitors_from = from,
              !.seen = @ \cup after,
              !.pending_recovery_check = FALSE,
              !.exited = /\ a.pending_recovery_check
                         /\ a.close_after_recovery
                         /\ any_offscreen(a.windows) /\ ~any_offscreen(windows),
              !.check = IF a.pending_recovery_check
                        THEN [for |-> a.pending_for, after |-> after] ELSE @]

\* lines 220-234: Message::WindowMoved, the match on the result.  Ghost:
\* pending_for, the call that set the flag.
window_moved(a, ok, k) ==
    IF ok THEN [a EXCEPT !.pending_recovery_check = TRUE, !.pending_for = k]
    ELSE a

\* a reload only after a call that succeeded
reload_after_move_on_success(ts, ok, id, after) ==
    IF ok THEN spawn_load(ts, id, after) ELSE ts

\* lines 236-246: Message::WindowMoved, the tasks it returns
reload_after_move(ts, ok, id, after) == spawn_load(ts, id, after)

\* a repositioning call, or a refresh, can be started
CanMove == ~app.exited /\ app.moves < MaxMoves /\ Len(tasks) < MaxInFlight

CanRefresh == ~app.exited /\ app.refreshes < MaxRefreshes /\ Len(tasks) < MaxInFlight

(***************************************************************************)
(* SpecApp: the application on a desktop of two monitors, which the        *)
(* system may enumerate in either order, and one window.                   *)
(***************************************************************************)
AppLayouts == {l \in Layouts : Len(l) = 2}

\* the tracked window at startup: off every monitor
AppWindows ==
    {Window(TRUE, "Normal", r, r) : r \in {Rect(-9, 1, -7, 3)}}

\* no Win32 call fails, or the reads of the window do
AppFailures == {{}, {"GetWindowRect", "GetWindowPlacement"}}

\* lines 100-135: App::new; the settings are those of the settings file.
\* Ghost: moves, loads, refreshes and changes count what was started.
InitApp ==
    /\ monitors \in {l \in AppLayouts : l[1].is_primary}
    /\ win \in AppWindows
    /\ snap = NoWindow
    /\ last = NoCall
    /\ desktop = <<>>
    /\ displays = <<>>
    /\ scans = NoScans
    /\ keys = NoKeys
    /\ \E close_after_recovery \in BOOLEAN :
          app = [windows |-> <<>>, monitors |-> <<>>, screen |-> MainScreen,
                 close_after_recovery |-> close_after_recovery,
                 pending_recovery_check |-> FALSE, exited |-> FALSE,
                 windows_from |-> 0, monitors_from |-> 0, seen |-> {},
                 pending_for |-> 0, check |-> NoCheck,
                 moves |-> 0, loads |-> 1, refreshes |-> 0, changes |-> 0]
    /\ tasks = spawn_load(<<>>, 1, {})

\* the handlers that start a refresh
refresh ==
    /\ tasks' = spawn_load(tasks, app.loads + 1, Returned(tasks, app.moves))
    /\ app' = [app EXCEPT !.loads = @ + 1, !.refreshes = @ + 1]
    /\ UNCHANGED <<monitors, win, snap, last, desktop, displays, scans, keys>>

\* lines 514-519 and 609-617: Message::Tick, sent while the main screen shows
Tick == CanRefresh /\ app.screen.name = "Main" /\ refresh

\* lines 440-442: Message::HotkeyRefresh
HotkeyRefresh == CanRefresh /\ refresh

\* lines 184-189: Message::SelectWindow, for a window of the list shown
SelectWindow ==
    /\ ~app.exited /\ app.screen.name = "Main"
    /\ \E i \in 1..Len(app.windows) :
          app' = [app EXCEPT !.screen = MonitorPicker(app.windows[i])]
    /\ UNCHANGED <<monitors, win, snap, last, desktop, displays, scans, keys, tasks>>

\* lines 215-218: Message::CancelSelection
CancelSelection ==
    /\ ~app.exited /\ app.screen.name = "MonitorPicker"
    /\ app' = [app EXCEPT !.screen = MainScreen]
    /\ UNCHANGED <<monitors, win, snap, last, desktop, displays, scans, keys, tasks>>

\* the handlers that start a repositioning call
start_move(op, ms, target, screen) ==
    /\ tasks' = spawn_move(tasks, app.moves + 1, op, ms, target)
    /\ app' = [app EXCEPT !.moves = @ + 1, !.screen = screen]
    /\ UNCHANGED <<monitors, win, snap, last, desktop, displays, scans, keys>>

\* lines 191-213: Message::MoveToMonitor, for a monitor of the list shown
MoveToMonitor ==
    /\ CanMove /\ app.screen.name = "MonitorPicker"
    /\ \E target \in 1..Len(app.monitors) :
          start_move("move_to_monitor", app.monitors, target, MainScreen)

\* lines 444-457: Message::HotkeyMoveToPrimary
HotkeyMoveToPrimary ==
    /\ CanMove
    /\ any_offscreen(app.windows)
    /\ find_primary(app.monitors, 1) # 0
    /\ start_move("move_to_primary", app.monitors,
                  find_primary(app.monitors, 1), app.screen)

\* lines 459-483: Message::HotkeyMoveAllToPrimary
HotkeyMoveAllToPrimary ==
    /\ CanMove
    /\ any_offscreen(app.windows)
    /\ find_primary(app.monitors, 1) # 0
    /\ start_move("move_all_to_primary", app.monitors,
                  find_primary(app.monitors, 1), app.screen)

\* lines 485-495: Message::HotkeyCenterWindow; the tracked window is the
\* foreground window
HotkeyCenterWindow ==
    /\ CanMove
    /\ start_move("center_window", app.monitors, 0, app.screen)

\* lines 497-507: Message::HotkeyNextMonitor
HotkeyNextMonitor ==
    /\ CanMove
    /\ start_move("move_to_next_monitor", app.monitors, 0, app.screen)

\* the repositioning call of a task, on the window as it is now: the record
\* [rec, win] of the call
run_move(t, w, F, pick) ==
    IF t.op = "center_window" THEN center_window(w, t.ms, F)
    ELSE IF t.op = "move_to_next_monitor" THEN move_to_next_monitor(w, t.ms, F, pick)
    ELSE next_monitor_move(w, <<>>, t.target, 0,
                           move_window_to_monitor(w, t.ms, t.target, F, pick))

\* the monitors Win32 may maximize the window on during the call
run_move_picks(t, w) ==
    IF t.op = "center_window" THEN {0}
    ELSE IF t.op = "move_to_next_monitor" THEN next_monitor_picks(w, t.ms)
    ELSE os_monitor_candidates(
            target_rect(w.normal, t.ms[t.target], t.ms[t.target], FALSE), t.ms)

\* the task of a repositioning call runs: the call is made and returns
MoveRuns(i) ==
    /\ ~app.exited
    /\ i \in 1..Len(tasks)
    /\ tasks[i].kind = "move" /\ tasks[i].phase = "spawned"
    /\ \E F \in AppFailures, pick \in run_move_picks(tasks[i], win) :
          \E r \in {run_move(tasks[i], win, F, pick)} :
             /\ win' = r.win
             /\ tasks' = [tasks EXCEPT ![i].phase = "returned",
                                       ![i].result = r.rec.result]
    /\ UNCHANGED <<monitors, snap, last, desktop, displays, scans, keys, app>>

\* lines 220-247: Message::WindowMoved
WindowMoved(i) ==
    /\ ~app.exited
    /\ i \in 1..Len(tasks)
    /\ tasks[i].kind = "move" /\ tasks[i].phase = "returned"
    /\ app' = [window_moved(app, tasks[i].result = Ok, tasks[i].id)
                  EXCEPT !.loads = @ + 1]
    /\ tasks' = reload_after_move(remove(tasks, i), tasks[i].result = Ok,
                                  app.loads + 1, Returned(tasks, app.moves))
    /\ UNCHANGED <<monitors, win, snap, last, desktop, displays, scans, keys>>

\* line 710: the task of a load calls enumerate_monitors
LoadMonitors(i) ==
    /\ ~app.exited
    /\ i \in 1..Len(tasks)
    /\ tasks[i].kind = "load" /\ tasks[i].phase = "spawned"
    /\ tasks' = [tasks EXCEPT ![i].phase = "monitors", ![i].monitors = monitors]
    /\ UNCHANGED <<monitors, win, snap, last, desktop, displays, scans, keys, app>>

\* line 711: the task of a load calls enumerate_windows(&monitors)
LoadWindows(i) ==
    /\ ~app.exited
    /\ i \in 1..Len(tasks)
    /\ tasks[i].kind = "load" /\ tasks[i].phase = "monitors"
    /\ tasks' = [tasks EXCEPT
                   ![i].phase = "windows",
                   ![i].windows =
                       window_list(enumerate_windows(win, tasks[i].monitors, FALSE))]
    /\ UNCHANGED <<monitors, win, snap, last, desktop, displays, scans, keys, app>>

\* lines 165-182: Message::WindowsLoaded
WindowsLoaded(i) ==
    /\ ~app.exited
    /\ i \in 1..Len(tasks)
    /\ tasks[i].kind = "load" /\ tasks[i].phase = "windows"
    /\ app' = windows_loaded(app, tasks[i].windows, tasks[i].monitors,
                             tasks[i].id, tasks[i].after)
    /\ tasks' = remove(tasks, i)
    /\ UNCHANGED <<monitors, win, snap, last, desktop, displays, scans, keys>>

\* the system enumerates the two monitors in the other order from now on
DisplayChange ==
    /\ ~app.exited /\ app.changes < MaxDisplayChanges
    /\ \E l \in AppLayouts : l # monitors /\ monitors' = l
    /\ app' = [app EXCEPT !.changes = @ + 1]
    /\ UNCHANGED <<win, snap, last, desktop, displays, scans, keys, tasks>>

\* the places of the running tasks
Places == 1..(MaxInFlight + 1)

NextApp ==
    \/ Tick
    \/ HotkeyRefresh
    \/ SelectWindow
    \/ CancelSelection
    \/ MoveToMonitor
    \/ HotkeyMoveToPrimary
    \/ HotkeyMoveAllToPrimary
    \/ HotkeyCenterWindow
    \/ HotkeyNextMonitor
    \/ \E i \in Places : MoveRuns(i)
    \/ \E i \in Places : WindowMoved(i)
    \/ \E i \in Places : LoadMonitors(i)
    \/ \E i \in Places : LoadWindows(i)
    \/ \E i \in Places : WindowsLoaded(i)
    \/ DisplayChange

SpecApp == InitApp /\ [][NextApp]_vars

\* a repositioning call that was spawned has not run yet
MoveWaits ==
    /\ ~app.exited
    /\ \E i \in 1..Len(tasks) :
          tasks[i].kind = "move" /\ tasks[i].phase = "spawned"

\* a load takes its next step, or a message of a finished task is handled
Runtime ==
    \E i \in Places :
        \/ WindowMoved(i)
        \/ LoadMonitors(i)
        \/ LoadWindows(i)
        \/ WindowsLoaded(i)

\* the steps of the application while the display configuration stays as
\* it is
NextAppLive ==
    \/ Tick
    \/ HotkeyRefresh
    \/ SelectWindow
    \/ CancelSelection
    \/ MoveToMonitor
    \/ HotkeyMoveToPrimary
    \/ HotkeyMoveAllToPrimary
    \/ HotkeyCenterWindow
    \/ HotkeyNextMonitor
    \/ \E i \in Places : MoveRuns(i)
    \/ \E i \in Places : WindowMoved(i)
    \/ \E i \in Places : LoadMonitors(i)
    \/ \E i \in Places : LoadWindows(i)
    \/ \E i \in Places : WindowsLoaded(i)

\* SpecAppLive: the runtime does not stop while a task can run or a message
\* waits.  A spawned repositioning call runs (MoveRuns is enabled exactly
\* while MoveWaits holds, so this is weak fairness of MoveRuns), a load
\* takes its steps and every message is delivered.  No more than a bounded
\* number of tasks is ever started, so every task runs to its end.
SpecAppLive ==
    InitApp /\ [][NextAppLive]_vars /\ WF_vars(Runtime) /\ []<>~MoveWaits

(***************************************************************************)
(* Properties of the application (SpecApp, SpecAppLive).                   *)
(***************************************************************************)
\* the flags and the monitor name of every window of the list are those the
\* classification against the monitor list gives
ClassifiedAgainst(windows, list) ==
    \A i \in 1..Len(windows) :
        /\ windows[i].is_offscreen = ~is_window_on_any_monitor(windows[i].rect, list)
        /\ windows[i].monitor_name = find_window_monitor(windows[i].rect, list)

\* C23: the stored window list and the stored monitor list come from the
\* same refresh cycle: they were delivered by the same load, and every
\* stored window is classified (off-screen flag, monitor name) against the
\* stored monitor list; a load that has enumerated its windows has
\* classified them against the monitor list it enumerated.
C23_ListsOfOneCycle ==
    /\ app.windows_from = app.monitors_from
    /\ ClassifiedAgainst(app.windows, app.monitors)
    /\ \A i \in 1..Len(tasks) :
          (tasks[i].kind = "load" /\ tasks[i].phase = "windows") =>
              ClassifiedAgainst(tasks[i].windows, tasks[i].monitors)

\* C23 witness: the lists of a later load than the first are stored, the
\* window is on a monitor of the stored list, and the system enumerates
\* its monitors in another order by now.
C23_Witness ==
    /\ app.windows_from > 1
    /\ Len(app.windows) = 1 /\ app.windows[1].monitor_name # None
    /\ Len(app.monitors) = 2 /\ app.monitors # monitors
    /\ find_window_monitor(app.windows[1].rect, monitors) # app.windows[1].monitor_name

\* C26: the pending close-after-recovery check of a repositioning call that
\* succeeded is consumed only by the snapshot of a load that started after
\* that call returned.
C26_CheckOnReloadAfterMove ==
    (app.close_after_recovery /\ app.check # NoCheck) =>
        app.check.for \in app.check.after

\* the k-th repositioning call has been made and has returned
MoveReturned(k) == k \in Returned(tasks, app.moves)

\* the snapshot has been replaced by the result of a load that started
\* after the k-th repositioning call returned
Reconciled(k) == k \in app.seen

\* C24 as stated, in the form a finite run refutes: once the application
\* has exited nothing is stored any more, so every repositioning call that
\* has returned by then must have had its snapshot.  Only exits are looked
\* at whose check was made on the reload after the call that asked for it.
C24_Original ==
    (app.exited /\ app.check.for \in app.check.after) =>
        \A k \in 1..MaxMoves : MoveReturned(k) => Reconciled(k)

\* C24: after every repositioning call, whether it succeeded or failed, the
\* stored snapshot is eventually replaced by the result of an enumeration
\* that started after the call returned, unless the application exits
\* first.
C24_ReloadAfterEveryMove ==
    \A k \in 1..MaxMoves : MoveReturned(k) ~> (Reconciled(k) \/ app.exited)

\* C24 witness: two repositioning calls were made, neither succeeded (the
\* pending flag was never set), and for both a snapshot of a load that
\* started after the call returned has been stored.
C24_Witness ==
    /\ app.moves = 2 /\ app.seen = {1, 2}
    /\ app.pending_for = 0 /\ ~app.pending_recovery_check
    /\ ~app.exited

====
